---- MODULE Spec2Model ----
(***************************************************************************)
(* Model of the web UI of the plate/wine pairing system:                   *)
(*   - api.js: apiRequest (retry logic), the endpoint wrappers and         *)
(*     handleApiError;                                                     *)
(*   - validation.js: file validation, the report-creation workflow        *)
(*     (processMenuFiles, continueWithWines, continueWithPairing), the     *)
(*     login/register handlers and the ProgressTracker.                    *)
(* An async function is cut at its awaits: the step that settles a fetch   *)
(* runs apiRequest's handling of it and, when the call settles, the        *)
(* caller's continuation up to its next await (promise continuations run   *)
(* as microtasks, before any other event).                                 *)
(***************************************************************************)
EXTENDS Integers, Sequences, FiniteSets, TLC

\* ------------------------------------------------------------------ bounds
\* longest file list a single selection or drop delivers
MaxSelect == 2
\* login/register submissions that may be in flight at the same time
MaxInFlight == 2
\* longest file name validateFile is applied to on its own
MaxNameLen == 5
\* longest list validateFiles is applied to on its own
MaxFiles == 3
\* most reports kept in localStorage
MaxReports == 3
\* latest time the clock shows, in milliseconds
MaxClock == 1
\* most wines in a knowledge base the engine is applied to
MaxWines == 3
\* most dishes in a menu the engine is applied to
MaxDishes == 2
\* largest k pairTop is asked for
MaxK == 2
\* longest list of step names given to setSteps
MaxStepNames == 2
\* nextStep is not called on a tracker whose currentStep has reached this
MaxCurrentStep == 3
\* the cancel callback is not invoked more often than this
MaxInvoked == 2

\* --------------------------------------------------------------- constants
MAX_RETRIES == 3
MAX_FILE_SIZE == 10485760
MAX_STORAGE_SIZE == 5242880
ALLOWED_EXTENSIONS ==
    << <<".", "p", "d", "f">>, <<".", "t", "x", "t">>, <<".", "j", "p", "g">>,
       <<".", "j", "p", "e", "g">>, <<".", "p", "n", "g">>,
       <<".", "x", "l", "s", "x">>, <<".", "c", "s", "v">>,
       <<".", "j", "s", "o", "n">> >>

\* ---------------------------------------------------------------- messages
\* An error message is a sequence of phrases; PhraseHas(p) is the set of the
\* needles the code searches for (String.prototype.includes, case-sensitive)
\* that occur in phrase p.
PhraseHas(p) ==
    CASE p = "Failed to fetch" -> {"fetch", "Failed to fetch"}
      [] p = "NetworkError when attempting to fetch resource." -> {"fetch"}
      [] p = "upstream network unreachable" -> {"network"}
      [] p = "Unexpected token e, fetching is not valid JSON" -> {"fetch"}
      [] p = "400" -> {"400"}
      [] p = "500" -> {"500"}
      [] OTHER -> {}

Includes(msg, needle) == \E i \in DOMAIN msg : needle \in PhraseHas(msg[i])

\* `${status}` : number to decimal text
StatusStr(s) == CASE s = 400 -> "400" [] s = 500 -> "500" [] OTHER -> "0"

\* what fetch() rejects with when the request itself fails (Chrome, Firefox,
\* Safari wording)
NetErrMsgs ==
    { <<"Failed to fetch">>,
      <<"NetworkError when attempting to fetch resource.">>,
      <<"Load failed">> }

\* what response.json() rejects with on a body that is not JSON (the engine
\* quotes the offending body text)
ParseErrMsgs ==
    { <<"Unexpected token <, <!DOCTYPE is not valid JSON">>,
      <<"Unexpected token e, fetching is not valid JSON">> }

NullDerefMsg(prop) == <<"Cannot read properties of null (reading ", prop, ")">>

\* ------------------------------------------------------------- JSON values
\* A parsed body: null, or an object with the fields the UI reads. detail = ""
\* stands for an absent (or empty, equally falsy) detail.
JNull == [isNull |-> TRUE, detail |-> "", data |-> "", has_wines |-> FALSE,
          success |-> FALSE, user |-> ""]
JObj(d, x, hw) == [isNull |-> FALSE, detail |-> d, data |-> x, has_wines |-> hw,
                   success |-> FALSE, user |-> ""]
\* a body of /api/login or /api/register; user = "": no user field
JAuth(d, ok, u) == [isNull |-> FALSE, detail |-> d, data |-> "", has_wines |-> FALSE,
                    success |-> ok, user |-> u]

\* the bodies a 200 response of an endpoint may carry: null, or the endpoint's
\* result object (process-menu: with or without detected wines)
OkBodies(url) ==
    IF url = "process-menu"
    THEN {JNull, JObj("", "menu", TRUE), JObj("", "menu", FALSE)}
    ELSE {JNull, JObj("", url, FALSE)}
ErrBodies == {JNull, JObj("", "", FALSE), JObj("Invalid menu file", "", FALSE),
              JObj("upstream network unreachable", "", FALSE)}
StatusTexts == {"", "Internal Server Error"}
ErrStatuses == {400, 500}

\* ----------------------------------------------------------- fetch outcomes
NetFail(m) == [kind |-> "neterr", msg |-> m, ok |-> FALSE, status |-> 0,
               statusText |-> "", parses |-> FALSE, perr |-> <<>>, val |-> JNull]
Response(isOk, st, stt, v) ==
    [kind |-> "resp", msg |-> <<>>, ok |-> isOk, status |-> st,
     statusText |-> stt, parses |-> TRUE, perr |-> <<>>, val |-> v]
BadBody(isOk, st, stt, pe) ==
    [kind |-> "resp", msg |-> <<>>, ok |-> isOk, status |-> st,
     statusText |-> stt, parses |-> FALSE, perr |-> pe, val |-> JNull]

FetchOutcomes(url) ==
    {NetFail(m) : m \in NetErrMsgs}
    \cup {Response(TRUE, 200, "", v) : v \in OkBodies(url)}
    \cup {BadBody(TRUE, 200, "", pe) : pe \in ParseErrMsgs}
    \cup {Response(FALSE, st, stt, v) : st \in ErrStatuses, stt \in StatusTexts, v \in ErrBodies}
    \cup {BadBody(FALSE, st, stt, pe) : st \in ErrStatuses, stt \in StatusTexts, pe \in ParseErrMsgs}

NoOutcome == NetFail(<<>>)

\* ------------------------------------------------------------- apiRequest
HttpMsg(o) == <<"HTTP ", StatusStr(o.status), ": ", o.statusText>>

\* errorData.detail of a non-OK response: the body's, or the status text when
\* the body does not parse (the .catch fallback)
ErrorDetail(o) == IF o.parses THEN o.val.detail ELSE o.statusText

\* Attempt without the `!response.ok` test: any response with a JSON body is
\* returned
Attempt_ignoresStatus(o) ==
    IF o.kind = "neterr" THEN [ret |-> FALSE, val |-> JNull, msg |-> o.msg]
    ELSE IF o.parses THEN [ret |-> TRUE, val |-> o.val, msg |-> <<>>]
    ELSE [ret |-> FALSE, val |-> JNull, msg |-> o.perr]

\* one pass through the try block: what it returns or throws
Attempt(o) ==
    IF o.kind = "neterr" THEN [ret |-> FALSE, val |-> JNull, msg |-> o.msg]
    ELSE IF ~o.ok THEN
        IF o.parses /\ o.val.isNull
        THEN [ret |-> FALSE, val |-> JNull, msg |-> NullDerefMsg("detail")]
        ELSE IF ErrorDetail(o) # ""
             THEN [ret |-> FALSE, val |-> JNull, msg |-> <<ErrorDetail(o)>>]
             ELSE [ret |-> FALSE, val |-> JNull, msg |-> HttpMsg(o)]
    ELSE IF o.parses THEN [ret |-> TRUE, val |-> o.val, msg |-> <<>>]
    ELSE [ret |-> FALSE, val |-> JNull, msg |-> o.perr]

\* ShouldRetry with the test on the counter off by one
ShouldRetry_offByOne(retries, msg) ==
    retries >= 0 /\ (Includes(msg, "fetch") \/ Includes(msg, "network"))

\* the catch block's test
ShouldRetry(retries, msg) ==
    retries > 0 /\ (Includes(msg, "fetch") \/ Includes(msg, "network"))

\* handleApiError
handleApiError(msg) ==
    IF Includes(msg, "Failed to fetch") \/ Includes(msg, "network")
    THEN <<"Network error. Please check your connection and try again.">>
    ELSE IF Includes(msg, "400")
    THEN <<"Invalid request. Please check your input and try again.">>
    ELSE IF Includes(msg, "500")
    THEN <<"Server error. Please try again later.">>
    ELSE IF Includes(msg, "timeout")
    THEN <<"Request timed out. Please try again.">>
    ELSE msg

\* the endpoint wrappers' catch: new Error(`Failed to ...: ${error.message}`)
WrapPrefix(url) ==
    CASE url = "process-menu" -> "Failed to process menu: "
      [] url = "process-wines" -> "Failed to process wines: "
      [] url = "analyze-similarity" -> "Failed to analyze similarity: "
      [] url = "pair-wines" -> "Failed to pair wines: "
      [] url = "rank-wines" -> "Failed to rank wines: "
      [] url = "generate-report" -> "Failed to generate report: "
      [] OTHER -> ""
Wrap(url, msg) == <<WrapPrefix(url)>> \o msg


\* --------------------------------------------------------- file validation
\* A file name is a sequence of one-character strings.
File(n, s) == [present |-> TRUE, name |-> n, size |-> s]
NullFile == [present |-> FALSE, name |-> <<>>, size |-> 0]

\* String.prototype.toLowerCase, character by character
LowerChar(c) ==
    CASE c = "P" -> "p" [] c = "D" -> "d" [] c = "F" -> "f" [] c = "C" -> "c"
      [] c = "S" -> "s" [] c = "V" -> "v" [] c = "X" -> "x" [] OTHER -> c
Lower(str) == [i \in 1..Len(str) |-> LowerChar(str[i])]

\* getFileExtension: split on '.', keep the last part
getFileExtension(filename) ==
    LET dots == {i \in 1..Len(filename) : filename[i] = "."} IN
    IF dots = {} THEN <<>>
    ELSE LET last == CHOOSE i \in dots : \A j \in dots : j <= i
         IN <<".">> \o Lower(SubSeq(filename, last + 1, Len(filename)))

NoError == [code |-> "none", arg |-> <<>>]
Err(c, a) == [code |-> c, arg |-> a]

\* validateFile with the size test off by one (>= instead of >)
validateFile_sizeOffByOne(file) ==
    IF ~file.present
    THEN [valid |-> FALSE, error |-> Err("No file provided", <<>>), file |-> NullFile]
    ELSE IF ~(\E i \in DOMAIN ALLOWED_EXTENSIONS :
                  ALLOWED_EXTENSIONS[i] = getFileExtension(file.name))
    THEN [valid |-> FALSE,
          error |-> Err("File type is not supported", getFileExtension(file.name)),
          file |-> file]
    ELSE IF file.size >= MAX_FILE_SIZE
    THEN [valid |-> FALSE, error |-> Err("File exceeds maximum size", file.name),
          file |-> file]
    ELSE IF file.size = 0
    THEN [valid |-> FALSE, error |-> Err("File is empty", file.name), file |-> file]
    ELSE [valid |-> TRUE, error |-> NoError, file |-> file]

\* validateFile
validateFile(file) ==
    IF ~file.present
    THEN [valid |-> FALSE, error |-> Err("No file provided", <<>>), file |-> NullFile]
    ELSE IF ~(\E i \in DOMAIN ALLOWED_EXTENSIONS :
                  ALLOWED_EXTENSIONS[i] = getFileExtension(file.name))
    THEN [valid |-> FALSE,
          error |-> Err("File type is not supported", getFileExtension(file.name)),
          file |-> file]
    ELSE IF file.size > MAX_FILE_SIZE
    THEN [valid |-> FALSE, error |-> Err("File exceeds maximum size", file.name),
          file |-> file]
    ELSE IF file.size = 0
    THEN [valid |-> FALSE, error |-> Err("File is empty", file.name), file |-> file]
    ELSE [valid |-> TRUE, error |-> NoError, file |-> file]

NoFilesSelected == [filename |-> <<>>, error |-> Err("No files selected", <<>>)]

\* the loop of validateFiles from index i on, with its two accumulators
RECURSIVE validateLoop(_, _, _, _)
validateLoop(files, i, errors, validFiles) ==
    IF i > Len(files)
    THEN [valid |-> (Len(errors) = 0), errors |-> errors, validFiles |-> validFiles]
    ELSE LET validation == validateFile(files[i]) IN
         IF validation.valid
         THEN validateLoop(files, i + 1, errors, Append(validFiles, validation.file))
         ELSE validateLoop(files, i + 1,
                  Append(errors, [filename |-> files[i].name, error |-> validation.error]),
                  validFiles)

\* validateFiles reporting valid when some file passed (validFiles.length > 0)
validateFiles_validIfAny(isNull, files) ==
    IF isNull \/ Len(files) = 0
    THEN [valid |-> FALSE, errors |-> <<NoFilesSelected>>, validFiles |-> <<>>]
    ELSE LET r == validateLoop(files, 1, <<>>, <<>>)
         IN [r EXCEPT !.valid = Len(r.validFiles) > 0]

\* validateFiles; isNull: the argument is null/undefined
validateFiles(isNull, files) ==
    IF isNull \/ Len(files) = 0
    THEN [valid |-> FALSE, errors |-> <<NoFilesSelected>>, validFiles |-> <<>>]
    ELSE validateLoop(files, 1, <<>>, <<>>)


\* ------------------------------------------------------------------- state
VARIABLES
    location,        \* window.location: the page that is loaded
    reportState,     \* the global reportState object
    dom,             \* what the report-creation page displays
    progressTracker, \* the global ProgressTracker instance (exists = FALSE: null)
    pc,              \* the await the report workflow is suspended at
    api,             \* the apiRequest call in progress
    settled,         \* the most recent apiRequest call that settled
    nav,             \* the setTimeout set by continueWithPairing
    sessionReport,   \* sessionStorage 'current_report'
    log,             \* history: apiRequest calls issued and how they returned
    userCancelled,   \* history: the user has confirmed Cancel
    localUser,       \* localStorage 'user'
    auth,            \* login page: submissions in flight, errors, redirects
    vIn, vOut,       \* file validation applied on its own: input and result
    page,            \* report-creation page: what initReportCreation set up
    storage,         \* localStorage 'culinary_expert_reports', clock, last call
    engine,          \* pairing engine applied on its own: input and result
    tracker          \* a ProgressTracker called on its own: object, last call

vars == <<location, reportState, dom, progressTracker, pc, api, settled, nav,
          sessionReport, log, userCancelled, localUser, auth, vIn, vOut,
          page, storage, engine, tracker>>

reportVars == <<location, reportState, dom, progressTracker, pc, api, settled,
                nav, sessionReport, log, userCancelled>>
authVars == <<localUser, auth>>
validateVars == <<vIn, vOut>>
utilVars == <<page, storage, engine, tracker>>

\* files the user picks from in the workflow
SampleFiles ==
    { File(<<"a", ".", "p", "d", "f">>, 1),
      File(<<"b", ".", "C", "S", "V">>, MAX_FILE_SIZE),
      File(<<"c", ".", "e", "x", "e">>, 5),
      File(<<"d", ".", "t", "x", "t">>, 0),
      File(<<"e", ".", "p", "n", "g">>, MAX_FILE_SIZE + 1) }

RECURSIVE SeqsUpTo(_, _)
SeqsUpTo(S, n) ==
    IF n = 0 THEN {<<>>}
    ELSE LET shorter == SeqsUpTo(S, n - 1)
         IN shorter \cup {Append(q, x) : q \in shorter, x \in S}

Selections == SeqsUpTo(SampleFiles, MaxSelect)

\* files the user picks from for the additional wine files
WineSampleFiles ==
    { File(<<"w", ".", "j", "s", "o", "n">>, 7),
      File(<<"w", ".", "d", "o", "c">>, 7) }
WineSelections == SeqsUpTo(WineSampleFiles, MaxSelect)

\* ----------------------------------------------------------- ProgressTracker
NoTracker == [exists |-> FALSE, totalSteps |-> 0, currentStep |-> 0,
              steps |-> <<>>, cancelled |-> FALSE, onCancelCallback |-> FALSE]
\* constructor
NewTracker(totalSteps) ==
    [exists |-> TRUE, totalSteps |-> totalSteps, currentStep |-> 0,
     steps |-> <<>>, cancelled |-> FALSE, onCancelCallback |-> FALSE]
setSteps(t, steps) == [t EXCEPT !.steps = steps, !.totalSteps = Len(steps)]
\* stepName = null
NoName == ""
\* nextStep carrying on when the tracker is cancelled
nextStepNamed_ignoresCancel(t, stepName) ==
    LET n == t.currentStep + 1 IN
    [t EXCEPT !.currentStep = n,
              !.steps = IF stepName # NoName /\ n <= Len(@)
                        THEN [@ EXCEPT ![n] = stepName] ELSE @]
\* nextStep(stepName)
nextStepNamed(t, stepName) ==
    IF t.cancelled THEN t
    ELSE LET n == t.currentStep + 1 IN
         [t EXCEPT !.currentStep = n,
                   !.steps = IF stepName # NoName /\ n <= Len(@)
                             THEN [@ EXCEPT ![n] = stepName] ELSE @]
\* nextStep() without a step name, as every caller of the workflow uses it
nextStep(t) == nextStepNamed(t, NoName)
\* setStep: the step of that name, if there is one, becomes the current one
setStep(t, stepName) ==
    LET found == {i \in DOMAIN t.steps : t.steps[i] = stepName} IN
    IF found = {} THEN t
    ELSE [t EXCEPT !.currentStep = CHOOSE i \in found : \A j \in found : i <= j]
reset(t) == [t EXCEPT !.currentStep = 0, !.cancelled = FALSE]
\* cancel: what it does to the object, given the user's answer to confirm()
confirmCancel(t, confirmed) ==
    IF confirmed THEN [t EXCEPT !.cancelled = TRUE] ELSE t
\* cancel: whether it invokes the callback
callbackInvoked(t, confirmed) == confirmed /\ t.onCancelCallback
onCancel(t) == [t EXCEPT !.onCancelCallback = TRUE]
isCancelled(t) == t.cancelled
\* updateDisplay: the width of the progress bar, (currentStep / totalSteps)
\* * 100, as an exact fraction; x / 0 is NaN or Infinity
percentage(t) ==
    [finite |-> t.totalSteps # 0, num |-> t.currentStep * 100, den |-> t.totalSteps]
\* a tracker called on its own: the object, the call made last (history) and
\* how often the cancel callback has run (history)
NoTrackerCall == [op |-> "none", stepName |-> NoName, confirmed |-> FALSE]
TrackerCall(op, stepName, confirmed) ==
    [op |-> op, stepName |-> stepName, confirmed |-> confirmed]
NoTrack == [obj |-> NoTracker, last |-> NoTrackerCall, invoked |-> 0]
\* the `if (progressTracker)` guard of the workflow
IfTracker(t, u) == IF t.exists THEN u ELSE t

MenuSteps == <<"Uploading files", "Extracting dishes", "Mapping flavors",
               "Detecting wines", "Processing complete">>
WineSteps == <<"Processing wines", "Enriching with flavors", "Mapping compounds",
               "Complete">>
PairingSteps == <<"Analyzing similarity", "Pairing wines to dishes",
                  "Ranking wines", "Generating report", "Complete">>

\* ------------------------------------------------------------ page display
NoMsg == <<>>
InitDom ==
    [upload |-> TRUE, wineOptions |-> FALSE, loading |-> FALSE,
     checkboxes |-> "none", progressUI |-> FALSE,
     menuError |-> NoMsg, wineError |-> NoMsg, pairingError |-> NoMsg,
     toast |-> ""]

\* showLoadingScreen: the container is re-rendered (the progress display the
\* tracker built inside it is gone) and both sections are hidden
showLoadingScreen(d) ==
    [d EXCEPT !.loading = TRUE, !.progressUI = FALSE,
              !.upload = FALSE, !.wineOptions = FALSE]
hideLoadingScreen(d) == [d EXCEPT !.loading = FALSE]

\* --------------------------------------------------------- apiRequest calls
\* the FormData of a request: the fields appended to it (an empty FormData,
\* or no body at all, has none)
NoBody == [files |-> <<>>, use_detected_wines |-> FALSE,
           use_knowledge_base |-> FALSE, detected_wines |-> FALSE,
           wine_files |-> <<>>]
\* processMenu: every file is appended as 'files'
processMenuForm(files) == [NoBody EXCEPT !.files = files]
\* processWines: the two flags are always appended, detected_wines when the
\* option is truthy, wine_files when the list is not empty
processWinesForm(options) ==
    [NoBody EXCEPT !.use_detected_wines = options.use_detected_wines,
                   !.use_knowledge_base = options.use_knowledge_base,
                   !.detected_wines = options.detected_wines,
                   !.wine_files = IF Len(options.wine_files) > 0
                                  THEN options.wine_files ELSE <<>>]
NoResult == [ret |-> FALSE, val |-> JNull, msg |-> <<>>]
\* last: kind of the outcome of the latest attempt ("none": no attempt has
\* settled); sawOk: an earlier attempt of the call got an OK response
IdleCall == [url |-> "none", retries |-> 0, attempts |-> 0, phase |-> "idle",
             last |-> "none", sawOk |-> FALSE, body |-> NoBody]
\* apiRequest(url, options): retries defaults to MAX_RETRIES, first fetch sent
StartCall(url) == [url |-> url, retries |-> MAX_RETRIES, attempts |-> 1,
                   phase |-> "fetch", last |-> "none", sawOk |-> FALSE,
                   body |-> NoBody]
NoSettled == [url |-> "none", last |-> NoOutcome, result |-> NoResult]
\* the call settles on outcome o of its latest attempt with result r
Settle(call, o, r) == [url |-> call.url, last |-> o, result |-> r]
\* the kind of a fetch outcome
OutcomeKind(o) ==
    IF o.kind = "neterr" THEN "neterr" ELSE IF o.ok THEN "ok" ELSE "http-error"

\* JSON.stringify of a parsed body
Stringify(v) == [present |-> TRUE, json |-> v]
\* getItem of a key that was never set
NoItem == [present |-> FALSE, json |-> JNull]

Pipeline == <<"analyze-similarity", "pair-wines", "rank-wines", "generate-report">>

InitReportState ==
    [menuFiles |-> <<>>, menuResult |-> JNull, wineFiles |-> <<>>,
     wineResult |-> JNull, similarPairs |-> "", pairings |-> "",
     rankings |-> "", report |-> ""]

\* event: history, the handler that ran last and what it was given
NoEvent == [name |-> "none", form |-> "", password |-> "", confirm |-> "",
            o |-> NoOutcome]
InitAuth == [pending |-> <<>>, loginError |-> NoMsg, registerError |-> NoMsg,
             redirects |-> 0, event |-> NoEvent]

\* JSON.stringify(data.user): the text stored; undefined is stored as the
\* text "undefined"
StringifyUser(u) ==
    IF u = "" THEN [present |-> TRUE, text |-> <<"undefined">>]
    ELSE [present |-> TRUE, text |-> <<"{username:", u, "}">>]
NoUser == [present |-> FALSE, text |-> <<>>]

\* JSON.parse(localStorage.getItem('user') || 'null'): a missing entry reads
\* as null, the text "undefined" is not JSON (SyntaxError), the text of an
\* object parses to that object
ParseUser(item) ==
    IF ~item.present THEN [throws |-> FALSE, isNull |-> TRUE, text |-> <<>>]
    ELSE IF item.text = <<"undefined">>
    THEN [throws |-> TRUE, isNull |-> FALSE, text |-> <<>>]
    ELSE [throws |-> FALSE, isNull |-> FALSE, text |-> item.text]

\* ------------------------------------------- report-creation page at load
\* outcome: what the run of initReportCreation for this load did ("none": the
\* page is not loaded, "loading": it has not run yet); fileUpload: the
\* handlers of initFileUpload are attached; breadcrumb: what
\* initReportCreation wrote to the breadcrumb
NoPage == [outcome |-> "none", fileUpload |-> FALSE, breadcrumb |-> <<>>]
LoadingPage == [NoPage EXCEPT !.outcome = "loading"]
LoadedPage == [outcome |-> "initialised", fileUpload |-> TRUE,
               breadcrumb |-> <<"Home", "Create Report">>]

\* ------------------------------------------------- saved reports (utils.js)
\* A report is known by its id ("": it has none) and by bytes, the length of
\* the JSON text of the element saveReport stores for it. savedAt is the text
\* toISOString wrote, savedAtFormatted the text formatDate wrote (<<>>: unset).
Report(i, n) == [isNull |-> FALSE, id |-> i, bytes |-> n,
                 savedAt |-> <<>>, savedAtFormatted |-> <<>>]
NullReport == [isNull |-> TRUE, id |-> "", bytes |-> 0,
               savedAt |-> <<>>, savedAtFormatted |-> <<>>]

\* decimal digit of a number below ten
DigitChar(n) ==
    CASE n = 0 -> "0" [] n = 1 -> "1" [] n = 2 -> "2" [] n = 3 -> "3"
      [] n = 4 -> "4" [] n = 5 -> "5" [] n = 6 -> "6" [] n = 7 -> "7"
      [] n = 8 -> "8" [] OTHER -> "9"
\* new Date(t).toISOString() for a time t of a few milliseconds after the epoch
toISOString(t) == <<"1970-01-01T00:00:00.00", DigitChar(t), "Z">>
\* new Date(text).getTime() of such a text
DateOf(text) == CHOOSE t \in 0..9 : toISOString(t) = text
\* formatDate(new Date(t)): month, day, year, hour and minute (en-US, UTC);
\* seconds and milliseconds are not shown
formatDate(t) == <<"Jan 1, 1970, 12:",
                   DigitChar((t \div 60000) \div 10), DigitChar((t \div 60000) % 10),
                   " AM">>

\* localStorage 'culinary_expert_reports': absent, or the JSON text of a list
NoReports == [present |-> FALSE, list |-> <<>>]
\* JSON.stringify(reports) stored by setItem
StringifyReports(reports) == [present |-> TRUE, list |-> reports]
\* getSavedReports: a missing entry reads as the empty list
getSavedReports(item) == IF item.present THEN item.list ELSE <<>>

\* JSON.stringify(reports).length: brackets, the elements, commas between them
RECURSIVE SumBytes(_)
SumBytes(reports) ==
    IF reports = <<>> THEN 0 ELSE Head(reports).bytes + SumBytes(Tail(reports))
SerializedLength(reports) ==
    IF reports = <<>> THEN 2 ELSE 2 + SumBytes(reports) + (Len(reports) - 1)

\* last: the call the latest step made (op = "none": it made none), its
\* arguments, what it asked the user and what it returned
NoCall == [op |-> "none", report |-> NullReport, keepCount |-> 0, id |-> "",
           asked |-> FALSE, answer |-> FALSE, threw |-> FALSE,
           ok |-> FALSE, removed |-> 0]
NoStorage == [item |-> NoReports, now |-> 0, last |-> NoCall]
\* ------------------------------------------------ pairing engine: the KB
\* a raw attribute value of a source record: missing, a number on the source's
\* 0-100 scale, or a category
Missing == [kind |-> "missing", num |-> 0, cat |-> ""]
Num(n) == [kind |-> "num", num |-> n, cat |-> ""]
Cat(c) == [kind |-> "cat", num |-> 0, cat |-> c]
Imputed == [value |-> 3, imputed |-> TRUE]
Resolved(v) == [value |-> v, imputed |-> FALSE]

\* normalize without the test of the source range
normalize_unchecked(raw) ==
    IF raw.kind = "num" THEN Resolved(1 + (raw.num * 4 + 50) \div 100)
    ELSE IF raw.kind = "cat" /\ raw.cat = "very low" THEN Resolved(1)
    ELSE IF raw.kind = "cat" /\ raw.cat = "low" THEN Resolved(2)
    ELSE IF raw.kind = "cat" /\ raw.cat = "medium" THEN Resolved(3)
    ELSE IF raw.kind = "cat" /\ raw.cat = "high" THEN Resolved(4)
    ELSE IF raw.kind = "cat" /\ raw.cat = "very high" THEN Resolved(5)
    ELSE Imputed

\* a raw attribute to the 1-5 scale: linear (rounded) from 0-100, by lookup
\* from a category; what cannot be mapped is imputed with the neutral 3
normalize(raw) ==
    IF raw.kind = "num" /\ (raw.num < 0 \/ raw.num > 100) THEN Imputed
    ELSE IF raw.kind = "num" THEN Resolved(1 + (raw.num * 4 + 50) \div 100)
    ELSE IF raw.kind = "cat" /\ raw.cat = "very low" THEN Resolved(1)
    ELSE IF raw.kind = "cat" /\ raw.cat = "low" THEN Resolved(2)
    ELSE IF raw.kind = "cat" /\ raw.cat = "medium" THEN Resolved(3)
    ELSE IF raw.kind = "cat" /\ raw.cat = "high" THEN Resolved(4)
    ELSE IF raw.kind = "cat" /\ raw.cat = "very high" THEN Resolved(5)
    ELSE Imputed

Attributes == {"body", "acidity", "tannin", "sweetness"}
Wine(i, cs, bo, ac, ta, sw) ==
    [id |-> i, compounds |-> cs, body |-> bo, acidity |-> ac, tannin |-> ta,
     sweetness |-> sw, imputed |-> {}, excluded |-> FALSE]
NoWine == [Wine("", {}, 3, 3, 3, 3) EXCEPT !.excluded = TRUE]

\* build, for one raw record: a record without identifier is excluded
\* (DataIntegrityError), the others get their attributes normalized and the
\* set of the imputed ones
buildWine(raw) ==
    IF raw.id = "" THEN NoWine
    ELSE [id |-> raw.id, compounds |-> raw.compounds,
          body |-> normalize(raw.body).value,
          acidity |-> normalize(raw.acidity).value,
          tannin |-> normalize(raw.tannin).value,
          sweetness |-> normalize(raw.sweetness).value,
          imputed |-> {a \in Attributes : normalize(raw[a]).imputed},
          excluded |-> FALSE]

\* ------------------------------------------------ pairing engine: pairTop
\* stable sort of s by the strict order Before
StableSort(s, Before(_, _)) ==
    LET pos(j) == 1 + Cardinality({m \in DOMAIN s :
                        Before(s[m], s[j]) \/ (~Before(s[j], s[m]) /\ m < j)})
    IN [i \in DOMAIN s |-> s[CHOOSE j \in DOMAIN s : pos(j) = i]]

\* place of an identifier in the lexicographic order of the identifiers
IdRank(id) ==
    CASE id = "W1" -> 1 [] id = "W10" -> 2 [] id = "W2" -> 3 [] id = "W3" -> 4
      [] OTHER -> 0
LexLess(a, b) == IdRank(a) < IdRank(b)

Abs(n) == IF n < 0 THEN -n ELSE n
Min(a, b) == IF a < b THEN a ELSE b

\* attributeCompatibility, in percent: the closer the wine's acidity and body
\* are to what the dish calls for, the higher
attributeCompatibility(dish, wine) ==
    100 - ((Abs(dish.acidity - wine.acidity) + Abs(dish.body - wine.body)) * 100) \div 8

\* score(dishProfile, wine): the PairingResult, its rank not yet set
score(dish, wine, cfg) ==
    LET shared == dish.compounds \cap wine.compounds
        normalized == IF dish.compounds = {} THEN 0
                      ELSE (Cardinality(shared) * 100) \div Cardinality(dish.compounds)
    IN [dish |-> dish.name, wine |-> wine.id, sharedCount |-> Cardinality(shared),
        shared |-> shared,
        score |-> cfg.w1 * normalized + cfg.w2 * attributeCompatibility(dish, wine),
        rank |-> 0, lowConfidence |-> dish.compounds = {}]

\* the order of pairTop without the tie-break on the identifier
pairBefore_noIdTieBreak(a, b) ==
    \/ a.score > b.score
    \/ a.score = b.score /\ a.sharedCount > b.sharedCount

\* the order of pairTop: higher score, then higher shared-compound count, then
\* lexicographic identifier
pairBefore(a, b) ==
    \/ a.score > b.score
    \/ a.score = b.score /\ a.sharedCount > b.sharedCount
    \/ a.score = b.score /\ a.sharedCount = b.sharedCount /\ LexLess(a.wine, b.wine)

\* the first n elements, each given its place as rank
TopRanked(sorted, n) == [i \in 1..Min(n, Len(sorted)) |-> [sorted[i] EXCEPT !.rank = i]]

\* pairTop over the wines that share a compound with the dish only
pairTop_sharedOnly(dish, kb, k, cfg) ==
    LET results == [i \in DOMAIN kb |-> score(dish, kb[i], cfg)]
    IN TopRanked(SelectSeq(StableSort(results, pairBefore),
                           LAMBDA r : r.sharedCount > 0), k)

pairTop(dish, kb, k, cfg) ==
    LET results == [i \in DOMAIN kb |-> score(dish, kb[i], cfg)]
    IN TopRanked(StableSort(results, pairBefore), k)

\* batch pairing: pairTop for every dish of the menu, in the menu's order
pairMenu(menu, kb, k, cfg) == [d \in DOMAIN menu |-> pairTop(menu[d], kb, k, cfg)]

\* --------------------------------------------- pairing engine: similarity
\* integer square root of a number up to 10000
Isqrt(n) == CHOOSE r \in 0..100 : r * r <= n /\ n < (r + 1) * (r + 1)

\* similarity with the overlap taken relative to the first wine's compounds
similarity_overlapOfFirst(a, b, cfg) ==
    LET overlap == IF a.compounds = {} THEN 100
                   ELSE (Cardinality(a.compounds \cap b.compounds) * 100)
                            \div Cardinality(a.compounds)
        squares == (a.body - b.body) * (a.body - b.body)
                   + (a.acidity - b.acidity) * (a.acidity - b.acidity)
                   + (a.tannin - b.tannin) * (a.tannin - b.tannin)
                   + (a.sweetness - b.sweetness) * (a.sweetness - b.sweetness)
        closeness == 100 - Isqrt((squares * 10000) \div 64)
    IN (cfg.s1 * overlap + cfg.s2 * closeness) \div (cfg.s1 + cfg.s2)

\* similarity score in percent: Jaccard similarity of the compound sets and
\* 1 - normalized Euclidean distance of the four attributes, weighted
similarity(a, b, cfg) ==
    LET union == a.compounds \cup b.compounds
        jaccard == IF union = {} THEN 100
                   ELSE (Cardinality(a.compounds \cap b.compounds) * 100)
                            \div Cardinality(union)
        squares == (a.body - b.body) * (a.body - b.body)
                   + (a.acidity - b.acidity) * (a.acidity - b.acidity)
                   + (a.tannin - b.tannin) * (a.tannin - b.tannin)
                   + (a.sweetness - b.sweetness) * (a.sweetness - b.sweetness)
        closeness == 100 - Isqrt((squares * 10000) \div 64)
    IN (cfg.s1 * jaccard + cfg.s2 * closeness) \div (cfg.s1 + cfg.s2)

\* the SimilarityPair of two wines, the lower identifier first
similarityPair(x, y, threshold, cfg) ==
    LET lo == IF LexLess(y.id, x.id) THEN y ELSE x
        hi == IF LexLess(y.id, x.id) THEN x ELSE y
    IN [a |-> lo.id, b |-> hi.id,
        sharedCount |-> Cardinality(lo.compounds \cap hi.compounds),
        score |-> similarity(lo, hi, cfg), above |-> similarity(lo, hi, cfg) >= threshold]

\* the positions <<i, j>>, i < j, of the unordered pairs of n wines
RECURSIVE enumeratePairs(_, _, _)
enumeratePairs(n, i, j) ==
    IF i >= n THEN <<>>
    ELSE IF j > n THEN enumeratePairs(n, i + 1, i + 2)
    ELSE << <<i, j>> >> \o enumeratePairs(n, i, j + 1)

findSimilar(kb, threshold, cfg) ==
    LET at == enumeratePairs(Len(kb), 1, 2)
        all == [m \in DOMAIN at |->
                   similarityPair(kb[at[m][1]], kb[at[m][2]], threshold, cfg)]
    IN SelectSeq(all, LAMBDA p : p.above)

\* ------------------------------------------------- pairing engine: ranking
RECURSIVE SumSeq(_)
SumSeq(q) == IF q = <<>> THEN 0 ELSE Head(q) + SumSeq(Tail(q))

\* the places where wine w stands in the results of dish d
PlacesIn(results, w) == {i \in DOMAIN results : results[i].wine = w}

\* the RankingEntry of wine w, its rank not yet set: the dishes that have it
\* in their top k, and the sum of its scores there
rankingEntry(pairsByDish, w) ==
    [wine |-> w,
     matches |-> Cardinality({d \in DOMAIN pairsByDish : PlacesIn(pairsByDish[d], w) # {}}),
     aggregate |-> SumSeq([d \in DOMAIN pairsByDish |->
                      IF PlacesIn(pairsByDish[d], w) = {} THEN 0
                      ELSE pairsByDish[d][CHOOSE i \in PlacesIn(pairsByDish[d], w) : TRUE].score]),
     rank |-> 0]

\* where the results first mention wine w, counting through the dishes in the
\* order submitted; the wines never mentioned come last
FirstSeen(pairsByDish, w, width) ==
    LET ds == {d \in DOMAIN pairsByDish : PlacesIn(pairsByDish[d], w) # {}}
        d1 == CHOOSE d \in ds : \A e \in ds : d <= e
    IN IF ds = {} THEN (Len(pairsByDish) + 1) * (width + 1)
       ELSE d1 * (width + 1) + (CHOOSE i \in PlacesIn(pairsByDish[d1], w) : TRUE)

\* the order of rank without the tie-break on the identifier
rankBefore_noIdTieBreak(a, b) ==
    \/ a.matches > b.matches
    \/ a.matches = b.matches /\ a.aggregate > b.aggregate

\* the order of rank: more dishes matched, then higher aggregate score, then
\* ascending identifier
rankBefore(a, b) ==
    \/ a.matches > b.matches
    \/ a.matches = b.matches /\ a.aggregate > b.aggregate
    \/ a.matches = b.matches /\ a.aggregate = b.aggregate /\ LexLess(a.wine, b.wine)

\* keptEntries that always drops the wines without a match
keptEntries_matchedOnly(entries, cfg) == SelectSeq(entries, LAMBDA e : e.matches > 0)

\* the wines without a match stay in unless the caller's configuration
\* filters them out
keptEntries(entries, cfg) ==
    IF cfg.includeUnmatched THEN entries
    ELSE SelectSeq(entries, LAMBDA e : e.matches > 0)

\* rank: the entries are collected as the results mention their wines, then
\* sorted
rank(pairsByDish, kb, cfg) ==
    LET entries == [i \in DOMAIN kb |-> rankingEntry(pairsByDish, kb[i].id)]
        collected == StableSort(entries,
                         LAMBDA x, y : FirstSeen(pairsByDish, x.wine, Len(kb))
                                         < FirstSeen(pairsByDish, y.wine, Len(kb)))
        sorted == StableSort(keptEntries(collected, cfg), rankBefore)
    IN TopRanked(sorted, Len(sorted))

\* configuration: the weights of the pairing score (w1, w2) and of the
\* similarity score (s1, s2), and whether rank lists the wines without a match
Config(a, b, c, d, u) == [w1 |-> a, w2 |-> b, s1 |-> c, s2 |-> d, includeUnmatched |-> u]
NoRaw == [id |-> "", compounds |-> {}, body |-> Missing, acidity |-> Missing,
          tannin |-> Missing, sweetness |-> Missing]
\* op: the last operation applied ("none": only the inputs are set)
NoEngine == [op |-> "none", raw |-> NoRaw, wine |-> NoWine, kb |-> <<>>,
             menu |-> <<>>, k |-> 0, threshold |-> 0, cfg |-> Config(1, 1, 1, 1, TRUE),
             pairs |-> <<>>, similar |-> <<>>, ranking |-> <<>>]

\* ------------------------------------- file validation applied on its own
NoOne == [valid |-> FALSE, error |-> NoError, file |-> NullFile]
NoMany == [valid |-> FALSE, errors |-> <<>>, validFiles |-> <<>>]
NotApplied == [op |-> "none", one |-> NoOne, many |-> NoMany]

NameChars == {".", "p", "D", "f", "x"}
Sizes == {0, 1, MAX_FILE_SIZE, MAX_FILE_SIZE + 1}
\* names spelled over NameChars, and one name for each allowed extension
Names ==
    SeqsUpTo(NameChars, MaxNameLen)
    \cup { <<"m">> \o ALLOWED_EXTENSIONS[i] : i \in DOMAIN ALLOWED_EXTENSIONS }
    \cup { <<"a", ".", "p", "d", "f", ".", "x">>, <<"a", ".", "x", ".", "P", "D", "F">>,
           <<"j", "p", "e", "g">>, <<"a", ".", "j", "p", "e">> }
OneFiles == {File(n, s) : n \in Names, s \in Sizes}
ListFiles ==
    { File(<<"a", ".", "p", "d", "f">>, 1), File(<<"a", ".", "p", "d", "f">>, 0),
      File(<<"b", ".", "C", "S", "V">>, MAX_FILE_SIZE),
      File(<<"c", ".", "e", "x", "e">>, 5),
      File(<<"e", ".", "p", "n", "g">>, MAX_FILE_SIZE + 1) }

InitValidate ==
    /\ location = "create-report.html"
    /\ reportState = InitReportState
    /\ dom = InitDom
    /\ progressTracker = NoTracker
    /\ pc = "idle"
    /\ api = IdleCall
    /\ settled = NoSettled
    /\ nav = [pending |-> FALSE, payload |-> JNull]
    /\ sessionReport = NoItem
    /\ log = <<>>
    /\ userCancelled = FALSE
    /\ localUser = NoUser
    /\ auth = InitAuth
    /\ \/ vIn \in [isNull : {FALSE}, files : {<<f>> : f \in OneFiles}]
       \/ vIn \in [isNull : BOOLEAN, files : SeqsUpTo(ListFiles, MaxFiles)]
    /\ vOut = NotApplied
    /\ page = NoPage
    /\ storage = NoStorage
    /\ engine = NoEngine
    /\ tracker = NoTrack

\* validateFile(file) on a one-file input, or on no file at all
applyValidateFile ==
    /\ vOut.op = "none" /\ Len(vIn.files) <= 1
    /\ vOut' = [op |-> "file", many |-> NoMany,
                one |-> validateFile(IF vIn.isNull \/ vIn.files = <<>>
                                     THEN NullFile ELSE vIn.files[1])]
    /\ UNCHANGED <<vIn, reportVars, authVars, utilVars>>

\* validateFiles(files)
applyValidateFiles ==
    /\ vOut.op = "none"
    /\ vOut' = [op |-> "files", one |-> NoOne,
                many |-> validateFiles(vIn.isNull, vIn.files)]
    /\ UNCHANGED <<vIn, reportVars, authVars, utilVars>>

NextValidate == applyValidateFile \/ applyValidateFiles

SpecValidate == InitValidate /\ [][NextValidate]_vars

Init ==
    /\ location = "create-report.html"
    /\ reportState = InitReportState
    /\ dom = InitDom
    /\ progressTracker = NoTracker
    /\ pc = "idle"
    /\ api = IdleCall
    /\ settled = NoSettled
    /\ nav = [pending |-> FALSE, payload |-> JNull]
    /\ sessionReport = NoItem
    /\ log = <<>>
    /\ userCancelled = FALSE
    /\ localUser = StringifyUser("alice")
    /\ auth = InitAuth
    /\ vIn = [isNull |-> FALSE, files |-> <<>>]
    /\ vOut = NotApplied
    /\ page = LoadedPage
    /\ storage = NoStorage
    /\ engine = NoEngine
    /\ tracker = NoTrack

OnPage == location = "create-report.html"


\* ---------------------------------------------------- file lists (report.js)
SameFile(f, g) == f.name = g.name /\ f.size = g.size

\* the forEach of handleFiles / handleWineFiles: push the files not yet listed
RECURSIVE addFiles(_, _)
addFiles(list, new) ==
    IF new = <<>> THEN list
    ELSE IF \E i \in DOMAIN list : SameFile(list[i], Head(new))
         THEN addFiles(list, Tail(new))
         ELSE addFiles(Append(list, Head(new)), Tail(new))

\* Array.prototype.splice(index, 1), index counted from 1 here
splice(list, i) == SubSeq(list, 1, i - 1) \o SubSeq(list, i + 1, Len(list))

\* handleFiles pushing every file of the selection, valid or not
handleFiles_pushesAll(files) ==
    /\ OnPage /\ dom.upload
    /\ reportState' = [reportState EXCEPT !.menuFiles = addFiles(@, files)]
    /\ UNCHANGED <<location, dom, progressTracker, pc, api, settled, nav,
                   sessionReport, log, userCancelled, authVars, validateVars, utilVars>>

handleFiles(files) ==
    /\ OnPage /\ dom.upload
    /\ reportState' = [reportState EXCEPT
           !.menuFiles = addFiles(@, validateFiles(FALSE, files).validFiles)]
    /\ UNCHANGED <<location, dom, progressTracker, pc, api, settled, nav,
                   sessionReport, log, userCancelled, authVars, validateVars, utilVars>>

removeFile(index) ==
    /\ OnPage /\ dom.upload
    /\ index \in DOMAIN reportState.menuFiles
    /\ reportState' = [reportState EXCEPT !.menuFiles = splice(@, index)]
    /\ UNCHANGED <<location, dom, progressTracker, pc, api, settled, nav,
                   sessionReport, log, userCancelled, authVars, validateVars, utilVars>>

\* handleWineFiles pushing the valid files without looking for them in the list
handleWineFiles_noDedupe(files) ==
    /\ OnPage /\ dom.wineOptions /\ dom.checkboxes # "none"
    /\ reportState' = [reportState EXCEPT
           !.wineFiles = @ \o validateFiles(FALSE, files).validFiles]
    /\ UNCHANGED <<location, dom, progressTracker, pc, api, settled, nav,
                   sessionReport, log, userCancelled, authVars, validateVars, utilVars>>

handleWineFiles(files) ==
    /\ OnPage /\ dom.wineOptions /\ dom.checkboxes # "none"
    /\ reportState' = [reportState EXCEPT
           !.wineFiles = addFiles(@, validateFiles(FALSE, files).validFiles)]
    /\ UNCHANGED <<location, dom, progressTracker, pc, api, settled, nav,
                   sessionReport, log, userCancelled, authVars, validateVars, utilVars>>

removeWineFile(index) ==
    /\ OnPage /\ dom.wineOptions /\ dom.checkboxes # "none"
    /\ index \in DOMAIN reportState.wineFiles
    /\ reportState' = [reportState EXCEPT !.wineFiles = splice(@, index)]
    /\ UNCHANGED <<location, dom, progressTracker, pc, api, settled, nav,
                   sessionReport, log, userCancelled, authVars, validateVars, utilVars>>

\* ------------------------------------------------- the workflow, by stages
\* processMenuFiles up to its await
processMenuFiles ==
    /\ OnPage /\ dom.upload
    /\ IF Len(reportState.menuFiles) = 0
       THEN /\ dom' = [dom EXCEPT !.toast = "Please select at least one file"]
            /\ UNCHANGED <<progressTracker, pc, api, log>>
       ELSE /\ dom' = [showLoadingScreen(dom) EXCEPT !.progressUI = TRUE]
            /\ progressTracker' =
                   nextStep(nextStep(setSteps(NewTracker(6), MenuSteps)))
            /\ pc' = "process-menu"
            /\ api' = [StartCall("process-menu") EXCEPT
                          !.body = processMenuForm(reportState.menuFiles)]
            /\ log' = Append(log, <<"send", "process-menu">>)
    /\ UNCHANGED <<location, reportState, settled, nav, sessionReport,
                   userCancelled, authVars, validateVars, utilVars>>

\* the catch blocks
\* the catch of processMenuFiles without its hideLoadingScreen
menuCatch_keepsLoading(d, msg) ==
    [d EXCEPT !.menuError = handleApiError(msg),
              !.toast = "Failed to process menu files"]
menuCatch(d, msg) ==
    [hideLoadingScreen(d) EXCEPT !.menuError = handleApiError(msg),
                                 !.toast = "Failed to process menu files"]
wineCatch(d, msg) ==
    [hideLoadingScreen(d) EXCEPT !.wineError = handleApiError(msg),
                                 !.toast = "Failed to process wines"]
pairingCatch(d, msg) ==
    [hideLoadingScreen(d) EXCEPT !.pairingError = handleApiError(msg),
                                 !.toast = "Failed to generate report"]

\* showWineOptions up to the read of menuResult.has_wines
showSections(d) == [d EXCEPT !.upload = FALSE, !.wineOptions = TRUE]

\* processMenuFiles after processMenu resolved with result
menuResolved(result) ==
    /\ progressTracker' = nextStep(nextStep(nextStep(progressTracker)))
    /\ reportState' = [reportState EXCEPT !.menuResult = result]
    /\ dom' = IF result.isNull
              THEN menuCatch(showSections(hideLoadingScreen(dom)),
                             NullDerefMsg("has_wines"))
              ELSE [showSections(hideLoadingScreen(dom)) EXCEPT
                       !.checkboxes = IF result.has_wines THEN "detected" ELSE "plain"]
    /\ pc' = "idle"
    /\ api' = IdleCall
    /\ log' = Append(log, <<"ok", "process-menu">>)
    /\ UNCHANGED nav

\* processMenuFiles after processMenu rejected
menuRejected(msg) ==
    /\ dom' = menuCatch(dom, Wrap("process-menu", msg))
    /\ pc' = "idle"
    /\ api' = IdleCall
    /\ log' = Append(log, <<"err", "process-menu">>)
    /\ UNCHANGED <<progressTracker, reportState, nav>>

\* the wineOptions object continueWithWines builds; extracted_wines is taken
\* to be present in a menu result exactly when has_wines is set
\* wineOptions handing over the wine files whether or not the option is checked
wineOptions_alwaysFiles(useDetected, useKB, addWineFiles) ==
    [use_detected_wines |-> useDetected,
     use_knowledge_base |-> useKB,
     detected_wines |-> useDetected /\ reportState.menuResult.has_wines,
     wine_files |-> reportState.wineFiles]

wineOptions(useDetected, useKB, addWineFiles) ==
    [use_detected_wines |-> useDetected,
     use_knowledge_base |-> useKB,
     detected_wines |-> useDetected /\ reportState.menuResult.has_wines,
     wine_files |-> IF addWineFiles THEN reportState.wineFiles ELSE <<>>]

\* continueWithWines up to its await; the arguments are the three checkboxes
continueWithWines(useDetected, useKB, addWineFiles) ==
    /\ OnPage /\ dom.wineOptions
    /\ dom.checkboxes = "none" => ~useDetected /\ ~useKB /\ ~addWineFiles
    /\ dom.checkboxes = "plain" => ~useDetected
    /\ IF ~useDetected /\ ~useKB /\ ~addWineFiles
       THEN /\ dom' = [dom EXCEPT !.toast = "Please select at least one wine source"]
            /\ UNCHANGED <<progressTracker, pc, api, log>>
       ELSE IF addWineFiles /\ Len(reportState.wineFiles) = 0
       THEN /\ dom' = [dom EXCEPT !.toast = "Please select wine files or uncheck Add wine file"]
            /\ UNCHANGED <<progressTracker, pc, api, log>>
       ELSE IF useDetected /\ reportState.menuResult.isNull
       THEN /\ dom' = wineCatch(showLoadingScreen(dom), NullDerefMsg("extracted_wines"))
            /\ progressTracker' =
                   IfTracker(progressTracker, reset(setSteps(progressTracker, WineSteps)))
            /\ UNCHANGED <<pc, api, log>>
       ELSE /\ dom' = showLoadingScreen(dom)
            /\ progressTracker' =
                   IfTracker(progressTracker,
                             nextStep(reset(setSteps(progressTracker, WineSteps))))
            /\ pc' = "process-wines"
            /\ api' = [StartCall("process-wines") EXCEPT
                          !.body = processWinesForm(
                              wineOptions(useDetected, useKB, addWineFiles))]
            /\ log' = Append(log, <<"send", "process-wines">>)
    /\ UNCHANGED <<location, reportState, settled, nav, sessionReport,
                   userCancelled, authVars, validateVars, utilVars>>

\* continueWithPairing up to its first await; t is the tracker on entry
continueWithPairing ==
    /\ progressTracker' =
           IfTracker(progressTracker,
                     nextStep(reset(setSteps(progressTracker, PairingSteps))))
    /\ pc' = "analyze-similarity"
    /\ api' = StartCall("analyze-similarity")

\* continueWithWines after processWines resolved: the result is kept and
\* continueWithPairing is entered
winesResolved(result) ==
    /\ reportState' = [reportState EXCEPT !.wineResult = result]
    /\ continueWithPairing
    /\ log' = log \o << <<"ok", "process-wines">>, <<"send", "analyze-similarity">> >>
    /\ UNCHANGED <<dom, nav>>

\* the catch of continueWithWines entering continueWithPairing all the same
winesRejected_continues(msg) ==
    /\ dom' = wineCatch(dom, Wrap("process-wines", msg))
    /\ continueWithPairing
    /\ log' = log \o << <<"err", "process-wines">>, <<"send", "analyze-similarity">> >>
    /\ UNCHANGED <<reportState, nav>>

winesRejected(msg) ==
    /\ dom' = wineCatch(dom, Wrap("process-wines", msg))
    /\ pc' = "idle"
    /\ api' = IdleCall
    /\ log' = Append(log, <<"err", "process-wines">>)
    /\ UNCHANGED <<progressTracker, reportState, nav>>

\* the field of reportState a pipeline stage fills
StageField(url, rs, value) ==
    CASE url = "analyze-similarity" -> [rs EXCEPT !.similarPairs = value]
      [] url = "pair-wines" -> [rs EXCEPT !.pairings = value]
      [] url = "rank-wines" -> [rs EXCEPT !.rankings = value]
      [] url = "generate-report" -> [rs EXCEPT !.report = value]

\* NextStage with ranking and pairing in the wrong order
NextStage_rankFirst(url) ==
    CASE url = "analyze-similarity" -> "rank-wines"
      [] url = "rank-wines" -> "pair-wines"
      [] url = "pair-wines" -> "generate-report"
      [] url = "generate-report" -> "none"

NextStage(url) ==
    CASE url = "analyze-similarity" -> "pair-wines"
      [] url = "pair-wines" -> "rank-wines"
      [] url = "rank-wines" -> "generate-report"
      [] url = "generate-report" -> "none"

\* the catch with the navigation timer set all the same (as from a finally)
pipelineFailed_stillNavigates(msg) ==
    /\ dom' = pairingCatch(dom, msg)
    /\ pc' = "idle"
    /\ api' = IdleCall
    /\ nav' = [pending |-> TRUE, payload |-> JNull]
    /\ UNCHANGED <<progressTracker, reportState>>

\* continueWithPairing's catch
pipelineFailed(msg) ==
    /\ dom' = pairingCatch(dom, msg)
    /\ pc' = "idle"
    /\ api' = IdleCall
    /\ UNCHANGED <<progressTracker, reportState, nav>>

\* continueWithPairing after the stage it awaits resolved with result
pipelineResolved(result) ==
    IF result.isNull
    THEN /\ pipelineFailed(NullDerefMsg("result"))
         /\ log' = Append(log, <<"ok", pc>>)
    ELSE /\ reportState' = StageField(pc, reportState, result.data)
         /\ progressTracker' = IfTracker(progressTracker, nextStep(progressTracker))
         /\ UNCHANGED dom
         /\ IF NextStage(pc) = "none"
            THEN /\ pc' = "idle"
                 /\ api' = IdleCall
                 /\ nav' = [pending |-> TRUE, payload |-> result]
                 /\ log' = Append(log, <<"ok", pc>>)
            ELSE /\ pc' = NextStage(pc)
                 /\ api' = StartCall(NextStage(pc))
                 /\ UNCHANGED nav
                 /\ log' = log \o << <<"ok", pc>>, <<"send", NextStage(pc)>> >>

pipelineRejected(msg) ==
    /\ pipelineFailed(Wrap(pc, msg))
    /\ log' = Append(log, <<"err", pc>>)

\* ------------------------------------------------------------ fetch settles
\* the fetch of the call in progress settles with outcome o: apiRequest
\* returns, retries after the delay, or throws; on return or throw the awaiting
\* function runs on
fetchSettles(o) ==
    /\ OnPage /\ api.phase = "fetch"
    /\ LET a == Attempt(o) IN
       IF a.ret
       THEN /\ settled' = Settle(api, o, a)
            /\ CASE pc = "process-menu" -> menuResolved(a.val)
                 [] pc = "process-wines" -> winesResolved(a.val)
                 [] OTHER -> pipelineResolved(a.val)
       ELSE IF ShouldRetry(api.retries, a.msg)
       THEN /\ api' = [api EXCEPT !.phase = "delay", !.last = OutcomeKind(o),
                                !.sawOk = @ \/ OutcomeKind(o) = "ok"]
            /\ UNCHANGED <<reportState, dom, progressTracker, pc, settled, nav, log>>
       ELSE /\ settled' = Settle(api, o, a)
            /\ CASE pc = "process-menu" -> menuRejected(a.msg)
                 [] pc = "process-wines" -> winesRejected(a.msg)
                 [] OTHER -> pipelineRejected(a.msg)
    /\ UNCHANGED <<location, sessionReport, userCancelled, authVars, validateVars, utilVars>>

\* RETRY_DELAY has elapsed: apiRequest(url, options, retries - 1)
retryDelayElapsed ==
    /\ OnPage /\ api.phase = "delay"
    /\ api' = [api EXCEPT !.phase = "fetch", !.retries = @ - 1, !.attempts = @ + 1]
    /\ UNCHANGED <<location, reportState, dom, progressTracker, pc, settled, nav,
                   sessionReport, log, userCancelled, authVars, validateVars, utilVars>>

\* the timer set at the end of continueWithPairing fires
navTimerFires ==
    /\ OnPage /\ nav.pending
    /\ sessionReport' = Stringify(nav.payload)
    /\ location' = "report-preview.html"
    /\ nav' = [nav EXCEPT !.pending = FALSE]
    /\ UNCHANGED <<reportState, dom, progressTracker, pc, api, settled, log,
                   userCancelled, authVars, validateVars, utilVars>>

\* ProgressTracker.cancel, from the Cancel button of the progress display;
\* confirmed: the user's answer to confirm()
cancel(confirmed) ==
    /\ OnPage /\ dom.loading /\ dom.progressUI /\ progressTracker.exists
    /\ IF confirmed
       THEN /\ progressTracker' = [progressTracker EXCEPT !.cancelled = TRUE]
            /\ userCancelled' = TRUE
       ELSE UNCHANGED <<progressTracker, userCancelled>>
    /\ UNCHANGED <<location, reportState, dom, pc, api, settled, nav,
                   sessionReport, log, authVars, validateVars, utilVars>>

Next ==
    \/ \E files \in Selections : handleFiles(files)
    \/ \E i \in DOMAIN reportState.menuFiles : removeFile(i)
    \/ \E files \in WineSelections : handleWineFiles(files)
    \/ \E i \in DOMAIN reportState.wineFiles : removeWineFile(i)
    \/ processMenuFiles
    \/ \E d, k, f \in BOOLEAN : continueWithWines(d, k, f)
    \/ \E o \in FetchOutcomes(api.url) : fetchSettles(o)
    \/ retryDelayElapsed
    \/ navTimerFires
    \/ \E c \in BOOLEAN : cancel(c)

Spec == Init /\ [][Next]_vars


\* ------------------------------------------------------ login and register
AuthOkBodies ==
    {JNull, JAuth("", TRUE, "alice"), JAuth("", TRUE, "bob"), JAuth("", TRUE, ""),
     JAuth("", FALSE, "")}
AuthErrBodies ==
    {JNull, JAuth("Invalid credentials", FALSE, ""), JAuth("", FALSE, ""),
     JAuth("", TRUE, "alice")}

AuthOutcomes ==
    {NetFail(m) : m \in NetErrMsgs}
    \cup {Response(TRUE, 200, "", v) : v \in AuthOkBodies}
    \cup {BadBody(TRUE, 200, "", pe) : pe \in ParseErrMsgs}
    \cup {Response(FALSE, 400, "", v) : v \in AuthErrBodies}
    \cup {BadBody(FALSE, 500, "", pe) : pe \in ParseErrMsgs}

\* the fallback texts of the two handlers
FailText(form) == IF form = "login" THEN "Login failed" ELSE "Registration failed"

\* authTry without the `!response.ok` test
authTry_ignoresStatus(form, o) ==
    IF o.kind = "neterr" THEN [store |-> FALSE, user |-> "", msg |-> o.msg]
    ELSE IF ~o.parses THEN [store |-> FALSE, user |-> "", msg |-> o.perr]
    ELSE IF o.val.isNull
    THEN [store |-> FALSE, user |-> "", msg |-> NullDerefMsg("success")]
    ELSE IF o.val.success
    THEN [store |-> TRUE, user |-> o.val.user, msg |-> <<>>]
    ELSE [store |-> FALSE, user |-> "", msg |-> <<FailText(form)>>]

\* the body of the try block of handleLogin / handleRegister after the fetch
\* settled with o: store = TRUE when the user is stored and the redirect set
authTry(form, o) ==
    IF o.kind = "neterr" THEN [store |-> FALSE, user |-> "", msg |-> o.msg]
    ELSE IF ~o.parses THEN [store |-> FALSE, user |-> "", msg |-> o.perr]
    ELSE IF ~o.ok THEN
        IF o.val.isNull
        THEN [store |-> FALSE, user |-> "", msg |-> NullDerefMsg("detail")]
        ELSE IF o.val.detail # ""
        THEN [store |-> FALSE, user |-> "", msg |-> <<o.val.detail>>]
        ELSE [store |-> FALSE, user |-> "", msg |-> <<FailText(form)>>]
    ELSE IF o.val.isNull
    THEN [store |-> FALSE, user |-> "", msg |-> NullDerefMsg("success")]
    ELSE IF o.val.success
    THEN [store |-> TRUE, user |-> o.val.user, msg |-> <<>>]
    ELSE [store |-> FALSE, user |-> "", msg |-> <<FailText(form)>>]

\* showError(formId, message) / hideError(formId) of auth.js
showFormError(a, form, msg) ==
    IF form = "login" THEN [a EXCEPT !.loginError = msg]
    ELSE [a EXCEPT !.registerError = msg]
hideError(a, form) == showFormError(a, form, NoMsg)
\* error.message || '<Form> failed. Please try again.'
CatchText(form, msg) ==
    IF msg # <<>> THEN msg
    ELSE IF form = "login" THEN <<"Login failed. Please try again.">>
    ELSE <<"Registration failed. Please try again.">>

OnLoginPage == location = "index.html"
CanSubmit == Len(auth.pending) + auth.redirects < MaxInFlight

\* handleLogin up to its await
handleLogin ==
    /\ OnLoginPage /\ CanSubmit
    /\ auth' = [hideError(auth, "login") EXCEPT
                    !.pending = Append(@, "login"),
                    !.event = [NoEvent EXCEPT !.name = "submit", !.form = "login"]]
    /\ UNCHANGED <<localUser, reportVars, validateVars, utilVars>>

Passwords == {"", "p1"}

\* handleRegister without the client-side password check
handleRegister_noCheck(password, confirmPassword) ==
    /\ OnLoginPage /\ CanSubmit
    /\ auth' = [hideError(auth, "register") EXCEPT
                    !.pending = Append(@, "register"),
                    !.event = [NoEvent EXCEPT !.name = "submit", !.form = "register",
                                              !.password = password,
                                              !.confirm = confirmPassword]]
    /\ UNCHANGED <<localUser, reportVars, validateVars, utilVars>>

\* handleRegister up to its await
handleRegister(password, confirmPassword) ==
    /\ OnLoginPage /\ CanSubmit
    /\ LET ev == [NoEvent EXCEPT !.name = "submit", !.form = "register",
                                  !.password = password, !.confirm = confirmPassword]
       IN IF password # confirmPassword
          THEN auth' = [showFormError(hideError(auth, "register"), "register",
                                      <<"Passwords do not match">>)
                           EXCEPT !.event = ev]
          ELSE auth' = [hideError(auth, "register") EXCEPT
                           !.pending = Append(@, "register"), !.event = ev]
    /\ UNCHANGED <<localUser, reportVars, validateVars, utilVars>>

\* the fetch of the i-th submission in flight settles with o and its handler
\* runs to the end
authSettles(i, o) ==
    /\ OnLoginPage
    /\ i \in DOMAIN auth.pending
    /\ LET form == auth.pending[i]
           r == authTry(form, o)
           rest == [auth EXCEPT !.pending = splice(@, i),
                                !.event = [NoEvent EXCEPT !.name = "settle",
                                                          !.form = form, !.o = o]]
       IN IF r.store
          THEN /\ localUser' = StringifyUser(r.user)
               /\ auth' = [rest EXCEPT !.redirects = @ + 1]
          ELSE /\ UNCHANGED localUser
               /\ auth' = showFormError(rest, form, CatchText(form, r.msg))
    /\ UNCHANGED <<reportVars, validateVars, utilVars>>

\* a redirect timer fires
redirectFires ==
    /\ OnLoginPage /\ auth.redirects > 0
    /\ location' = "home.html"
    /\ auth' = [auth EXCEPT !.redirects = @ - 1,
                             !.event = [NoEvent EXCEPT !.name = "redirect"]]
    /\ UNCHANGED <<localUser, reportState, dom, progressTracker, pc, api, settled,
                   nav, sessionReport, log, userCancelled, validateVars, utilVars>>

InitLogin ==
    /\ location = "index.html"
    /\ reportState = InitReportState
    /\ dom = InitDom
    /\ progressTracker = NoTracker
    /\ pc = "idle"
    /\ api = IdleCall
    /\ settled = NoSettled
    /\ nav = [pending |-> FALSE, payload |-> JNull]
    /\ sessionReport = NoItem
    /\ log = <<>>
    /\ userCancelled = FALSE
    /\ localUser \in {NoUser, StringifyUser("alice")}
    /\ auth = InitAuth
    /\ vIn = [isNull |-> FALSE, files |-> <<>>]
    /\ vOut = NotApplied
    /\ page = NoPage
    /\ storage = NoStorage
    /\ engine = NoEngine
    /\ tracker = NoTrack

NextLogin ==
    \/ handleLogin
    \/ \E p, c \in Passwords : handleRegister(p, c)
    \/ \E i \in 1..MaxInFlight, o \in AuthOutcomes : authSettles(i, o)
    \/ redirectFires

SpecLogin == InitLogin /\ [][NextLogin]_vars

\* ----------------------------------------- loading the report-creation page
\* the user opens create-report.html from the login or the home page; the page
\* they leave is unloaded (its requests and timers are dropped) and the script
\* registers initReportCreation for when the document is ready
openReportPage ==
    /\ location \in {"index.html", "home.html"}
    /\ location' = "create-report.html"
    /\ page' = LoadingPage
    /\ auth' = InitAuth
    /\ UNCHANGED <<localUser, reportState, dom, progressTracker, pc, api, settled,
                   nav, sessionReport, log, userCancelled, validateVars,
                   storage, engine, tracker>>

\* initReportCreation without the return after the redirect
initReportCreation_noReturn ==
    /\ location = "create-report.html" /\ page.outcome = "loading"
    /\ LET user == ParseUser(localUser)
       IN IF user.throws
          THEN /\ page' = [NoPage EXCEPT !.outcome = "threw"]
               /\ UNCHANGED location
          ELSE IF user.isNull
          THEN /\ location' = "index.html"
               /\ page' = [LoadedPage EXCEPT !.outcome = "redirected"]
          ELSE /\ page' = LoadedPage
               /\ UNCHANGED location
    /\ UNCHANGED <<localUser, auth, reportState, dom, progressTracker, pc, api,
                   settled, nav, sessionReport, log, userCancelled, validateVars,
                   storage, engine, tracker>>

\* initReportCreation, run when the document is ready
initReportCreation ==
    /\ location = "create-report.html" /\ page.outcome = "loading"
    /\ LET user == ParseUser(localUser)
       IN IF user.throws
          THEN /\ page' = [NoPage EXCEPT !.outcome = "threw"]
               /\ UNCHANGED location
          ELSE IF user.isNull
          THEN /\ location' = "index.html"
               /\ page' = [NoPage EXCEPT !.outcome = "redirected"]
          ELSE /\ page' = LoadedPage
               /\ UNCHANGED location
    /\ UNCHANGED <<localUser, auth, reportState, dom, progressTracker, pc, api,
                   settled, nav, sessionReport, log, userCancelled, validateVars,
                   storage, engine, tracker>>

\* the user goes from the report-creation page back to the login page
openLoginPage ==
    /\ location = "create-report.html" /\ page.outcome # "loading"
    /\ location' = "index.html"
    /\ page' = NoPage
    /\ UNCHANGED <<localUser, auth, reportState, dom, progressTracker, pc, api,
                   settled, nav, sessionReport, log, userCancelled, validateVars,
                   storage, engine, tracker>>

NextSession ==
    \/ handleLogin
    \/ \E p, c \in Passwords : handleRegister(p, c)
    \/ \E i \in 1..MaxInFlight, o \in AuthOutcomes : authSettles(i, o)
    \/ redirectFires
    \/ openReportPage
    \/ initReportCreation
    \/ openLoginPage

\* logging in and opening the report-creation page
SpecSession == InitLogin /\ [][NextSession]_vars


\* The workflow from the moment the user has chosen a menu file, under the
\* assumption that every fetch attempt eventually settles and every retry
\* delay elapses.
InitChosen ==
    /\ location = "create-report.html"
    /\ reportState = [InitReportState EXCEPT
           !.menuFiles = <<File(<<"a", ".", "p", "d", "f">>, 1)>>]
    /\ dom = InitDom
    /\ progressTracker = NoTracker
    /\ pc = "idle"
    /\ api = IdleCall
    /\ settled = NoSettled
    /\ nav = [pending |-> FALSE, payload |-> JNull]
    /\ sessionReport = NoItem
    /\ log = <<>>
    /\ userCancelled = FALSE
    /\ localUser = StringifyUser("alice")
    /\ auth = InitAuth
    /\ vIn = [isNull |-> FALSE, files |-> <<>>]
    /\ vOut = NotApplied
    /\ page = LoadedPage
    /\ storage = NoStorage
    /\ engine = NoEngine
    /\ tracker = NoTrack

NextChosen ==
    \/ processMenuFiles
    \/ \E d, k, f \in BOOLEAN : continueWithWines(d, k, f)
    \/ \E o \in FetchOutcomes(api.url) : fetchSettles(o)
    \/ retryDelayElapsed
    \/ navTimerFires
    \/ \E c \in BOOLEAN : cancel(c)

FairSpec ==
    /\ InitChosen /\ [][NextChosen]_vars
    /\ WF_vars(\E o \in FetchOutcomes(api.url) : fetchSettles(o))
    /\ WF_vars(retryDelayElapsed)

\* ------------------------------------------------ saving reports (utils.js)
\* the browser's threshold test with MAX_STORAGE_SIZE itself as the limit
exceedsLimit_wholeSize(size) == size > MAX_STORAGE_SIZE

\* size > MAX_STORAGE_SIZE * 0.9
exceedsLimit(size) == size * 10 > MAX_STORAGE_SIZE * 9

\* reportWithMeta with the id always generated
reportWithMeta_newId(report, generated, now) ==
    [isNull |-> FALSE, id |-> generated, bytes |-> report.bytes,
     savedAt |-> toISOString(now), savedAtFormatted |-> formatDate(now)]

\* { ...report, id: report.id || generateId(), savedAt, savedAtFormatted }
reportWithMeta(report, generated, now) ==
    [isNull |-> FALSE, id |-> IF report.id # "" THEN report.id ELSE generated,
     bytes |-> report.bytes,
     savedAt |-> toISOString(now), savedAtFormatted |-> formatDate(now)]

\* saveReport(report); generated: what generateId() would return; answer: what
\* the user would answer to confirm(); fits: setItem does not throw
\* QuotaExceededError
saveReport(report, generated, answer, fits) ==
    /\ Len(getSavedReports(storage.item)) < MaxReports
    /\ LET reports == getSavedReports(storage.item)
           call == [NoCall EXCEPT !.op = "saveReport", !.report = report]
       IN IF report.isNull
          THEN storage' = [storage EXCEPT !.last = [call EXCEPT !.threw = TRUE]]
          ELSE LET withMeta == reportWithMeta(report, generated, storage.now)
                   pushed == Append(reports, withMeta)
                   ask == exceedsLimit(SerializedLength(pushed))
                   c2 == [call EXCEPT !.id = withMeta.id, !.asked = ask,
                                      !.answer = ask /\ answer]
               IN IF ask /\ ~answer
                  THEN storage' = [storage EXCEPT !.last = c2]
                  ELSE IF ~fits
                  THEN storage' = [storage EXCEPT !.last = [c2 EXCEPT !.threw = TRUE]]
                  ELSE storage' = [storage EXCEPT
                                      !.item = StringifyReports(pushed),
                                      !.last = [c2 EXCEPT !.ok = TRUE]]
    /\ UNCHANGED <<reportVars, authVars, validateVars, page, engine, tracker>>

\* reports.find(r => r.id === id)
getReportById(item, id) ==
    LET reports == getSavedReports(item)
        hits == {i \in DOMAIN reports : reports[i].id = id}
    IN IF hits = {} THEN [found |-> FALSE, report |-> NullReport]
       ELSE [found |-> TRUE,
             report |-> reports[CHOOSE i \in hits : \A j \in hits : i <= j]]

\* the comparator with its operands exchanged
compareNewestFirst_ascending(a, b) == DateOf(a.savedAt) - DateOf(b.savedAt)

\* the comparator of the sort: new Date(b.savedAt) - new Date(a.savedAt)
compareNewestFirst(a, b) == DateOf(b.savedAt) - DateOf(a.savedAt)

\* place r in a list that is sorted, behind the elements that do not compare
\* after it (the sort is stable)
RECURSIVE insertSorted(_, _)
insertSorted(sorted, r) ==
    IF sorted = <<>> THEN <<r>>
    ELSE IF compareNewestFirst(Head(sorted), r) <= 0
         THEN <<Head(sorted)>> \o insertSorted(Tail(sorted), r)
         ELSE <<r>> \o sorted

\* reports.sort((a, b) => new Date(b.savedAt) - new Date(a.savedAt))
RECURSIVE sortNewestFirst(_)
sortNewestFirst(reports) ==
    IF reports = <<>> THEN <<>>
    ELSE insertSorted(sortNewestFirst(SubSeq(reports, 1, Len(reports) - 1)),
                      reports[Len(reports)])

DefaultKeepCount == 10

\* clearOldReports(keepCount)
clearOldReports(keepCount) ==
    /\ LET reports == getSavedReports(storage.item)
           call == [NoCall EXCEPT !.op = "clearOldReports", !.keepCount = keepCount]
       IN IF Len(reports) <= keepCount
          THEN storage' = [storage EXCEPT !.last = call]
          ELSE storage' = [storage EXCEPT
                   !.item = StringifyReports(SubSeq(sortNewestFirst(reports), 1, keepCount)),
                   !.last = [call EXCEPT !.removed = Len(reports) - keepCount]]
    /\ UNCHANGED <<reportVars, authVars, validateVars, page, engine, tracker>>

\* time passes, or the system clock is set
clockMoves(t) ==
    /\ t # storage.now
    /\ storage' = [storage EXCEPT !.now = t, !.last = NoCall]
    /\ UNCHANGED <<reportVars, authVars, validateVars, page, engine, tracker>>

\* the serialized length above which saveReport asks
WarnAbove == (MAX_STORAGE_SIZE * 9) \div 10
\* reports the user saves: two with an id, one without; with the first one
\* stored the second reaches the limit exactly and the third exceeds it
SampleReports ==
    {Report("r1", 100), Report("r2", WarnAbove - 103), Report("", WarnAbove - 102),
     NullReport}
GeneratedIds == {"g1", "g2"}
KeepCounts == (0..MaxReports) \cup {DefaultKeepCount}

InitStorage ==
    /\ location = "home.html"
    /\ reportState = InitReportState
    /\ dom = InitDom
    /\ progressTracker = NoTracker
    /\ pc = "idle"
    /\ api = IdleCall
    /\ settled = NoSettled
    /\ nav = [pending |-> FALSE, payload |-> JNull]
    /\ sessionReport = NoItem
    /\ log = <<>>
    /\ userCancelled = FALSE
    /\ localUser = StringifyUser("alice")
    /\ auth = InitAuth
    /\ vIn = [isNull |-> FALSE, files |-> <<>>]
    /\ vOut = NotApplied
    /\ page = NoPage
    /\ storage = NoStorage
    /\ engine = NoEngine
    /\ tracker = NoTrack

NextStorage ==
    \/ \E r \in SampleReports, g \in GeneratedIds, a, f \in BOOLEAN :
           saveReport(r, g, a, f)
    \/ \E k \in KeepCounts : clearOldReports(k)
    \/ \E t \in 0..MaxClock : clockMoves(t)

SpecStorage == InitStorage /\ [][NextStorage]_vars

\* ------------------------------------------- the pairing engine on its own
\* raw records: every attribute draws from values on, at the ends of and off
\* its source scale
RawWines ==
    [id : {"W1", ""}, compounds : {{"C1"}},
     body : {Missing, Cat("low"), Cat("very high"), Cat("n/a")},
     acidity : {Num(-1), Num(0), Num(12), Num(13), Num(100)},
     tannin : {Missing, Num(87), Num(88), Num(101), Num(250)},
     sweetness : {Missing, Num(50), Cat("medium")}]

\* W1 and W10 differ in the identifier only; W3 resolved no compound
WinePool ==
    { Wine("W1", {"C1", "C2"}, 3, 4, 3, 1), Wine("W10", {"C1", "C2"}, 3, 4, 3, 1),
      Wine("W2", {"C2", "C3"}, 3, 2, 4, 1), Wine("W3", {}, 3, 3, 3, 3) }
Dish(n, cs, ac, bo) == [name |-> n, compounds |-> cs, acidity |-> ac, body |-> bo]
\* the third dish resolved no ingredient
DishPool ==
    { Dish("D1", {"C1", "C2", "C3"}, 4, 3), Dish("D2", {"C3"}, 2, 3),
      Dish("D3", {}, 3, 3) }
\* sequences without a repeated element
Distinct(S, n) ==
    {q \in SeqsUpTo(S, n) : \A i, j \in DOMAIN q : i # j => q[i] # q[j]}
Configs == {Config(2, 1, 1, 1, TRUE), Config(0, 1, 3, 1, FALSE), Config(1, 0, 0, 1, TRUE)}
Thresholds == {0, 80, 100}

InitEngine ==
    /\ location = "home.html"
    /\ reportState = InitReportState
    /\ dom = InitDom
    /\ progressTracker = NoTracker
    /\ pc = "idle"
    /\ api = IdleCall
    /\ settled = NoSettled
    /\ nav = [pending |-> FALSE, payload |-> JNull]
    /\ sessionReport = NoItem
    /\ log = <<>>
    /\ userCancelled = FALSE
    /\ localUser = StringifyUser("alice")
    /\ auth = InitAuth
    /\ vIn = [isNull |-> FALSE, files |-> <<>>]
    /\ vOut = NotApplied
    /\ page = NoPage
    /\ storage = NoStorage
    /\ tracker = NoTrack
    /\ \/ \E r \in RawWines : engine = [NoEngine EXCEPT !.raw = r]
       \/ \E kb \in Distinct(WinePool, MaxWines), menu \in Distinct(DishPool, MaxDishes),
             k \in 1..MaxK, t \in Thresholds, cfg \in Configs :
             engine = [NoEngine EXCEPT !.kb = kb, !.menu = menu, !.k = k,
                                       !.threshold = t, !.cfg = cfg]

\* build on the raw record (k = 0: the input is a raw record, not a query)
applyBuild ==
    /\ engine.op = "none" /\ engine.k = 0
    /\ engine' = [engine EXCEPT !.op = "build", !.wine = buildWine(engine.raw)]
    /\ UNCHANGED <<reportVars, authVars, validateVars, page, storage, tracker>>

\* pairTop for every dish of the menu
applyPairTop ==
    /\ engine.op = "none" /\ engine.k > 0
    /\ engine' = [engine EXCEPT !.op = "pairTop",
           !.pairs = pairMenu(engine.menu, engine.kb, engine.k, engine.cfg)]
    /\ UNCHANGED <<reportVars, authVars, validateVars, page, storage, tracker>>

\* rank on the results of the pairing
applyRank ==
    /\ engine.op = "pairTop"
    /\ engine' = [engine EXCEPT !.op = "rank",
           !.ranking = rank(engine.pairs, engine.kb, engine.cfg)]
    /\ UNCHANGED <<reportVars, authVars, validateVars, page, storage, tracker>>

\* findSimilar on the knowledge base
applyFindSimilar ==
    /\ engine.op = "none" /\ engine.k > 0
    /\ engine' = [engine EXCEPT !.op = "findSimilar",
           !.similar = findSimilar(engine.kb, engine.threshold, engine.cfg)]
    /\ UNCHANGED <<reportVars, authVars, validateVars, page, storage, tracker>>

NextEngine == applyBuild \/ applyPairTop \/ applyRank \/ applyFindSimilar

SpecEngine == InitEngine /\ [][NextEngine]_vars


\* ------------------------------------------- a ProgressTracker on its own
\* the names steps are given
StepNames == {"Uploading files", "Complete"}
StepLists == SeqsUpTo(StepNames, MaxStepNames)

InitTracker ==
    /\ location = "home.html"
    /\ reportState = InitReportState
    /\ dom = InitDom
    /\ progressTracker = NoTracker
    /\ pc = "idle"
    /\ api = IdleCall
    /\ settled = NoSettled
    /\ nav = [pending |-> FALSE, payload |-> JNull]
    /\ sessionReport = NoItem
    /\ log = <<>>
    /\ userCancelled = FALSE
    /\ localUser = StringifyUser("alice")
    /\ auth = InitAuth
    /\ vIn = [isNull |-> FALSE, files |-> <<>>]
    /\ vOut = NotApplied
    /\ page = NoPage
    /\ storage = NoStorage
    /\ engine = NoEngine
    /\ \E totalSteps \in 0..MaxStepNames :
           tracker = [obj |-> NewTracker(totalSteps),
                      last |-> TrackerCall("new", NoName, FALSE), invoked |-> 0]

callSetSteps(steps) ==
    /\ tracker' = [tracker EXCEPT !.obj = setSteps(@, steps),
                                  !.last = TrackerCall("setSteps", NoName, FALSE)]
    /\ UNCHANGED <<reportVars, authVars, validateVars, page, storage, engine>>

callNextStep(stepName) ==
    /\ tracker.obj.currentStep < MaxCurrentStep
    /\ tracker' = [tracker EXCEPT !.obj = nextStepNamed(@, stepName),
                                  !.last = TrackerCall("nextStep", stepName, FALSE)]
    /\ UNCHANGED <<reportVars, authVars, validateVars, page, storage, engine>>

callSetStep(stepName) ==
    /\ tracker' = [tracker EXCEPT !.obj = setStep(@, stepName),
                                  !.last = TrackerCall("setStep", stepName, FALSE)]
    /\ UNCHANGED <<reportVars, authVars, validateVars, page, storage, engine>>

callReset ==
    /\ tracker' = [tracker EXCEPT !.obj = reset(@),
                                  !.last = TrackerCall("reset", NoName, FALSE)]
    /\ UNCHANGED <<reportVars, authVars, validateVars, page, storage, engine>>

callOnCancel ==
    /\ tracker' = [tracker EXCEPT !.obj = onCancel(@),
                                  !.last = TrackerCall("onCancel", NoName, FALSE)]
    /\ UNCHANGED <<reportVars, authVars, validateVars, page, storage, engine>>

\* cancel(); confirmed: the user's answer to confirm()
callCancel(confirmed) ==
    /\ callbackInvoked(tracker.obj, confirmed) => tracker.invoked < MaxInvoked
    /\ tracker' = [obj |-> confirmCancel(tracker.obj, confirmed),
                   last |-> TrackerCall("cancel", NoName, confirmed),
                   invoked |-> IF callbackInvoked(tracker.obj, confirmed)
                               THEN tracker.invoked + 1 ELSE tracker.invoked]
    /\ UNCHANGED <<reportVars, authVars, validateVars, page, storage, engine>>

NextTracker ==
    \/ \E steps \in StepLists : callSetSteps(steps)
    \/ \E stepName \in StepNames \cup {NoName} : callNextStep(stepName)
    \/ \E stepName \in StepNames \cup {"Ranking wines"} : callSetStep(stepName)
    \/ callReset
    \/ callOnCancel
    \/ \E confirmed \in BOOLEAN : callCancel(confirmed)

SpecTracker == InitTracker /\ [][NextTracker]_vars

\* ================================================================== claims
Range(q) == {q[i] : i \in DOMAIN q}
PipelineSet == Range(Pipeline)
IsPipelineEvent(e) == e[2] \in PipelineSet
PipelineLog == SelectSeq(log, IsPipelineEvent)
IsPrefix(a, b) == Len(a) <= Len(b) /\ SubSeq(b, 1, Len(a)) = a
\* the events of a run in which all four stages succeed
FullRun ==
    << <<"send", Pipeline[1]>>, <<"ok", Pipeline[1]>>,
       <<"send", Pipeline[2]>>, <<"ok", Pipeline[2]>>,
       <<"send", Pipeline[3]>>, <<"ok", Pipeline[3]>>,
       <<"send", Pipeline[4]>>, <<"ok", Pipeline[4]>> >>
AllFourOk == \A i \in DOMAIN Pipeline : <<"ok", Pipeline[i]>> \in Range(log)
PipelineErr == \E i \in DOMAIN Pipeline : <<"err", Pipeline[i]>> \in Range(log)

\* C1: once the user has confirmed Cancel, no pipeline request (analyze-
\* similarity, pair-wines, rank-wines, generate-report) is issued any more, and
\* neither is sessionStorage 'current_report' written nor the preview opened.
C1_CancelAborts ==
    [][userCancelled =>
          /\ \A i \in (Len(log) + 1)..Len(log') :
                 ~(log'[i][1] = "send" /\ log'[i][2] \in PipelineSet)
          /\ sessionReport' = sessionReport
          /\ location' = location]_vars

\* C2: the pipeline requests of a run are issued in the order analyze-
\* similarity, pair-wines, rank-wines, generate-report, each only after the
\* previous one returned successfully, none twice and none after a failure;
\* fetches for a stage are made only while that stage's request is open.
C2_PipelineOrder ==
    /\ \/ IsPrefix(PipelineLog, FullRun)
       \/ \E k \in DOMAIN Pipeline :
              PipelineLog = SubSeq(FullRun, 1, 2 * k - 1) \o << <<"err", Pipeline[k]>> >>
    /\ (api.phase \in {"fetch", "delay"} /\ api.url \in PipelineSet)
           => (log # <<>> /\ log[Len(log)] = <<"send", api.url>>)

C2_Witness == PipelineLog = FullRun

\* C3: 'current_report' is written, and the preview opened, only after all
\* four pipeline requests succeeded, and what is written is the generate-report
\* result; when one of them fails nothing is written, nothing is scheduled, the
\* page stays and reportState.report keeps its value.
C3_ReportOnlyAfterSuccess ==
    /\ []((sessionReport.present \/ location = "report-preview.html" \/ nav.pending)
              => AllFourOk)
    /\ [](sessionReport.present => sessionReport.json.data = "generate-report")
    /\ [](PipelineErr => /\ ~sessionReport.present
                         /\ location = "create-report.html"
                         /\ ~nav.pending)
    /\ [][(PipelineErr' /\ ~PipelineErr) =>
              /\ reportState'.report = reportState.report
              /\ sessionReport' = sessionReport
              /\ location' = location
              /\ nav' = nav]_vars

C3_Witness ==
    sessionReport.present /\ location = "report-preview.html" /\ AllFourOk

\* C4: one apiRequest call makes at most MAX_RETRIES + 1 fetch attempts; a
\* further attempt starts only from the retry delay, which is entered only by
\* an attempt that did not settle the call; the remaining-retries counter goes
\* down by one per retry and never below 0.
C4_RetryBound ==
    /\ [](/\ api.attempts <= MAX_RETRIES + 1
          /\ api.retries \in 0..MAX_RETRIES
          /\ api.phase \in {"fetch", "delay"}
                 => api.attempts + api.retries = MAX_RETRIES + 1)
    /\ [][(api'.url = api.url /\ api'.attempts # api.attempts) =>
              /\ api.phase = "delay" /\ api.last # "none"
              /\ api'.attempts = api.attempts + 1
              /\ api'.retries = api.retries - 1
              /\ api'.retries >= 0]_vars
    /\ [][(api'.phase = "delay" /\ api.phase # "delay") =>
              /\ api.phase = "fetch"
              /\ api'.attempts = api.attempts /\ api'.retries = api.retries
              /\ settled' = settled]_vars

C4_Witness == api.phase = "fetch" /\ api.attempts = MAX_RETRIES + 1 /\ api.retries = 0

\* C5: apiRequest retries only when the fetch itself failed: an attempt that
\* got a response, OK or not and whatever its body, is never followed by a
\* retry.
C5_RetryOnlyOnNetworkError == api.phase = "delay" => api.last = "neterr"

\* the message the original C6 gives a non-OK response
ClaimedMsg(o) ==
    IF o.parses /\ ~o.val.isNull /\ o.val.detail # "" THEN <<o.val.detail>>
    ELSE HttpMsg(o)
\* the message of a non-OK response: the detail of a JSON body if it has one;
\* the status text if the body is not JSON and the status text is not empty;
\* "HTTP <status>: <statusText>" otherwise; the TypeError for a null body
AmendedMsg(o) ==
    IF o.parses
    THEN IF o.val.isNull THEN NullDerefMsg("detail")
         ELSE IF o.val.detail # "" THEN <<o.val.detail>> ELSE HttpMsg(o)
    ELSE IF o.statusText # "" THEN <<o.statusText>> ELSE HttpMsg(o)

IsOkResponse(o) == o.kind = "resp" /\ o.ok
IsErrResponse(o) == o.kind = "resp" /\ ~o.ok

Endpoints == PipelineSet \cup {"process-menu", "process-wines"}
\* every call is eventually answered to its caller (an endpoint is called at
\* most once while the page is loaded)
EveryCallSettles ==
    \A u \in Endpoints :
        (api.url = u /\ api.phase \in {"fetch", "delay"})
            ~> (settled.url = u /\ api.url # u)

\* C6 as stated: every call settles; it resolves with the body of the first OK
\* response or rejects with the error of the last attempt; on a non-OK
\* response it rejects with the server's detail if present, otherwise with
\* "HTTP <status>: <statusText>".
C6_Original ==
    /\ EveryCallSettles
    /\ [](settled.url # "none" =>
            /\ settled.result.ret =>
                   /\ IsOkResponse(settled.last) /\ settled.last.parses
                   /\ settled.result.val = settled.last.val
            /\ (~settled.result.ret /\ settled.last.kind = "neterr")
                   => settled.result.msg = settled.last.msg
            /\ IsErrResponse(settled.last) =>
                   /\ ~settled.result.ret
                   /\ settled.result.msg = ClaimedMsg(settled.last))
    /\ [][(settled' # settled /\ settled'.result.ret) => ~api.sawOk]_vars

\* C6, amended: every call settles; it resolves with the parsed body of the OK
\* response of its last attempt, or rejects with the error of its last
\* attempt; it never resolves on a non-OK response, whose error message is the
\* detail of a JSON body if present, the status text if the body is not JSON
\* and the status text is not empty, and "HTTP <status>: <statusText>"
\* otherwise.
C6_Amended ==
    /\ EveryCallSettles
    /\ [](settled.url # "none" =>
            /\ settled.result.ret =>
                   /\ IsOkResponse(settled.last) /\ settled.last.parses
                   /\ settled.result.val = settled.last.val
            /\ (~settled.result.ret /\ settled.last.kind = "neterr")
                   => settled.result.msg = settled.last.msg
            /\ (~settled.result.ret /\ IsOkResponse(settled.last))
                   => (~settled.last.parses /\ settled.result.msg = settled.last.perr)
            /\ IsErrResponse(settled.last) =>
                   /\ ~settled.result.ret
                   /\ settled.result.msg = AmendedMsg(settled.last))

C6_Witness ==
    /\ settled.url # "none" /\ IsErrResponse(settled.last)
    /\ ~settled.last.parses /\ settled.last.statusText # ""
    /\ ~settled.result.ret

\* "the text after the last dot of the name, lower-cased, is an allowed
\* extension"
ExtensionAllowed(name) ==
    \E k \in DOMAIN name :
        /\ name[k] = "."
        /\ \A j \in (k + 1)..Len(name) : name[j] # "."
        /\ \E i \in DOMAIN ALLOWED_EXTENSIONS :
               Tail(ALLOWED_EXTENSIONS[i]) = Lower(SubSeq(name, k + 1, Len(name)))

Acceptable(f) ==
    f.present /\ ExtensionAllowed(f.name) /\ 0 < f.size /\ f.size <= MAX_FILE_SIZE

\* the file validateFile was applied to
OneInput == IF vIn.isNull \/ vIn.files = <<>> THEN NullFile ELSE vIn.files[1]

\* C7: validateFile(file).valid holds exactly when the file is present, its
\* extension is allowed and 0 < size <= 10MB; valid iff error is null; the
\* error reported is the first failing check of: missing file, unsupported
\* type, too large, empty.
C7_ValidateFile ==
    vOut.op = "file" =>
        LET f == OneInput
            r == vOut.one
        IN /\ r.valid <=> Acceptable(f)
           /\ r.valid <=> (r.error = NoError)
           /\ ~f.present => r.error.code = "No file provided"
           /\ (f.present /\ ~ExtensionAllowed(f.name))
                  => r.error.code = "File type is not supported"
           /\ (f.present /\ ExtensionAllowed(f.name) /\ f.size > MAX_FILE_SIZE)
                  => r.error.code = "File exceeds maximum size"
           /\ (f.present /\ ExtensionAllowed(f.name) /\ f.size = 0)
                  => r.error.code = "File is empty"

C7_Witness ==
    /\ vOut.op = "file" /\ vOut.one.valid
    /\ OneInput.size = MAX_FILE_SIZE
    /\ OneInput.name = <<"x", ".", "p", "D", "f">>

Passes(f) == Acceptable(f)
Fails(f) == ~Acceptable(f)

\* C8: on a non-empty list validateFiles is valid iff every file passes;
\* validFiles is the sub-sequence of the passing files, errors has one entry
\* (filename, error) per failing file, both in input order; on a null or empty
\* list the result is valid = false, errors = ['No files selected'],
\* validFiles = [].
C8_ValidateFiles ==
    vOut.op = "files" =>
        LET r == vOut.many
            failing == SelectSeq(vIn.files, Fails)
        IN IF vIn.isNull \/ vIn.files = <<>>
           THEN r = [valid |-> FALSE, errors |-> <<NoFilesSelected>>,
                     validFiles |-> <<>>]
           ELSE /\ r.valid <=> (\A i \in DOMAIN vIn.files : Passes(vIn.files[i]))
                /\ r.validFiles = SelectSeq(vIn.files, Passes)
                /\ Len(r.errors) = Len(failing)
                /\ \A i \in DOMAIN failing :
                       /\ r.errors[i].filename = failing[i].name
                       /\ r.errors[i].error = validateFile(failing[i]).error
                       /\ r.errors[i].error # NoError
                /\ Len(r.validFiles) + Len(r.errors) = Len(vIn.files)

C8_Witness ==
    /\ vOut.op = "files" /\ Len(vIn.files) = 3
    /\ Len(vOut.many.validFiles) = 2 /\ Len(vOut.many.errors) = 1
    /\ ~Acceptable(vIn.files[2])

\* a login/register response that lets the user in
IsSuccess(o) ==
    o.kind = "resp" /\ o.ok /\ o.parses /\ ~o.val.isNull /\ o.val.success
FormError(a, form) == IF form = "login" THEN a.loginError ELSE a.registerError
\* the step is the end of a handler whose request settled
SettleStep == Len(auth'.pending) < Len(auth.pending)

\* C9: localStorage 'user' is written, and a redirect scheduled, only by a
\* handler whose request got an OK response with success = true, which stores
\* that response's user; a handler whose request failed in any way leaves
\* localStorage and the redirects alone and shows an error in its form.
C9_StoreOnlyOnSuccess ==
    [][/\ (localUser' # localUser \/ auth'.redirects > auth.redirects) =>
              /\ SettleStep /\ IsSuccess(auth'.event.o)
       /\ (SettleStep /\ IsSuccess(auth'.event.o)) =>
              /\ localUser' = StringifyUser(auth'.event.o.val.user)
              /\ auth'.redirects = auth.redirects + 1
       /\ (SettleStep /\ ~IsSuccess(auth'.event.o)) =>
              /\ localUser' = localUser
              /\ auth'.redirects = auth.redirects
              /\ FormError(auth', auth'.event.form) # NoMsg]_vars

C9_Witness ==
    /\ localUser = StringifyUser("bob") /\ auth.redirects > 0
    /\ auth.event.name = "settle"

\* C10: handleRegister sends a request only when password and confirm_password
\* are equal; when they differ it shows 'Passwords do not match', sends
\* nothing and leaves localStorage unchanged.
C10_RegisterPasswordCheck ==
    [][/\ auth'.pending = Append(auth.pending, "register")
              => (auth'.event.form = "register"
                  /\ auth'.event.password = auth'.event.confirm)
       /\ (auth'.event # auth.event /\ auth'.event.name = "submit"
           /\ auth'.event.form = "register"
           /\ auth'.event.password # auth'.event.confirm) =>
              /\ auth'.pending = auth.pending
              /\ auth'.registerError = <<"Passwords do not match">>
              /\ localUser' = localUser
              /\ auth'.redirects = auth.redirects]_vars

C10_Witness ==
    /\ auth.event.name = "submit" /\ auth.event.form = "register"
    /\ auth.event.password # auth.event.confirm
    /\ auth.registerError = <<"Passwords do not match">>

\* the step is a run of initReportCreation
InitStep == page.outcome = "loading" /\ page'.outcome # "loading"
\* localStorage 'user' holds the user object a login or registration stored
HoldsUser(item) == item.present /\ ~ParseUser(item).throws /\ ~ParseUser(item).isNull

\* C11: when localStorage holds no 'user' entry, initReportCreation redirects
\* to index.html and attaches no file-upload handlers and writes no
\* breadcrumb; when it holds a stored user, initReportCreation attaches the
\* handlers, writes the breadcrumb Home > Create Report and stays on the page.
C11_AuthRedirect ==
    [][InitStep =>
          /\ ~localUser.present =>
                /\ location' = "index.html"
                /\ page'.outcome = "redirected"
                /\ ~page'.fileUpload /\ page'.breadcrumb = <<>>
          /\ HoldsUser(localUser) =>
                /\ location' = "create-report.html"
                /\ page'.outcome = "initialised"
                /\ page'.fileUpload
                /\ page'.breadcrumb = <<"Home", "Create Report">>]_vars

C11_Witness ==
    /\ page.outcome = "redirected" /\ location = "index.html"
    /\ ~localUser.present

\* the step is a call of saveReport / of clearOldReports
SaveStep == storage' # storage /\ storage'.last.op = "saveReport"
ClearStep == storage' # storage /\ storage'.last.op = "clearOldReports"
StoredBefore == getSavedReports(storage.item)
StoredAfter == getSavedReports(storage'.item)

\* C12: saveReport returns true exactly when it rewrote the stored list; the
\* new list is then the old one with one element appended, which is the
\* report with its own id (or a generated one when it has none), savedAt and
\* savedAtFormatted of the time of the call, and getReportById of that id
\* finds a report; it returns false only after a declined confirmation or an
\* exception, and then the stored list is as before.
C12_SaveReport ==
    [][SaveStep =>
          LET c == storage'.last
              e == StoredAfter[Len(StoredAfter)]
          IN /\ c.ok <=> (storage'.item # storage.item)
             /\ c.ok =>
                   /\ storage'.item.present
                   /\ Len(StoredAfter) = Len(StoredBefore) + 1
                   /\ SubSeq(StoredAfter, 1, Len(StoredBefore)) = StoredBefore
                   /\ e.bytes = c.report.bytes
                   /\ IF c.report.id # "" THEN e.id = c.report.id
                      ELSE e.id \in GeneratedIds
                   /\ e.id = c.id
                   /\ e.savedAt = toISOString(storage.now)
                   /\ e.savedAtFormatted = formatDate(storage.now)
                   /\ getReportById(storage'.item, e.id).found
             /\ ~c.ok =>
                   /\ (c.asked /\ ~c.answer) \/ c.threw
                   /\ storage'.item = storage.item]_vars

\* a report with an id of its own was saved behind another report
C12_Witness ==
    /\ storage.last.op = "saveReport" /\ storage.last.ok
    /\ storage.last.report.id = "r1"
    /\ Len(storage.item.list) = 2 /\ storage.item.list[2].id = "r1"

\* kept: the positions of the old list that the new list holds, in its order
IsKept(kept) ==
    /\ \A i, j \in DOMAIN kept : i # j => kept[i] # kept[j]
    /\ \A i \in DOMAIN kept :
          kept[i] \in DOMAIN StoredBefore /\ StoredAfter[i] = StoredBefore[kept[i]]

\* C13: with more than keepCount reports stored, clearOldReports(keepCount)
\* leaves exactly keepCount of them, no removed report was saved later than a
\* kept one, and it returns the number removed; with at most keepCount
\* reports it returns 0 and leaves storage as it is; after either, at most
\* keepCount reports are stored (a second call changes nothing).
C13_ClearOldReports ==
    [][ClearStep =>
          LET c == storage'.last
              k == c.keepCount
          IN /\ Len(StoredBefore) > k =>
                   /\ Len(StoredAfter) = k
                   /\ c.removed = Len(StoredBefore) - k
                   /\ \E kept \in [DOMAIN StoredAfter -> DOMAIN StoredBefore] :
                         /\ IsKept(kept)
                         /\ \A r \in DOMAIN StoredBefore :
                               (\A i \in DOMAIN kept : kept[i] # r) =>
                                   \A q \in DOMAIN kept :
                                       DateOf(StoredBefore[r].savedAt)
                                           <= DateOf(StoredBefore[kept[q]].savedAt)
             /\ Len(StoredBefore) <= k =>
                   /\ c.removed = 0
                   /\ storage'.item = storage.item
             /\ Len(StoredAfter) <= k]_vars

\* two of three reports were removed; the kept one has the latest time
C13_Witness ==
    /\ storage.last.op = "clearOldReports" /\ storage.last.removed = 2
    /\ storage.last.keepCount = 1
    /\ Len(storage.item.list) = 1
    /\ DateOf(storage.item.list[1].savedAt) = MaxClock

\* the length saveReport computes for the list with the report appended
LengthWith(report) ==
    SerializedLength(Append(StoredBefore, reportWithMeta(report, "g1", 0)))

\* C14: saveReport writes a list whose serialized length exceeds 90% of
\* MAX_STORAGE_SIZE only after the user confirmed the warning; after a
\* declined warning it returns false and the stored reports are as before;
\* when the length is below the threshold it asks nothing.
C14_StorageWarning ==
    [][SaveStep =>
          LET c == storage'.last
          IN /\ (storage'.item # storage.item
                 /\ SerializedLength(StoredAfter) * 10 > MAX_STORAGE_SIZE * 9)
                    => (c.asked /\ c.answer)
             /\ (c.asked /\ ~c.answer) =>
                    (~c.ok /\ storage'.item = storage.item)
             /\ (~c.report.isNull /\ LengthWith(c.report) * 10 < MAX_STORAGE_SIZE * 9)
                    => ~c.asked]_vars

\* a list one character over the threshold was written after a confirmation
C14_Witness ==
    /\ storage.last.op = "saveReport" /\ storage.last.ok
    /\ storage.last.asked /\ storage.last.answer
    /\ SerializedLength(storage.item.list) = WarnAbove + 1

\* the orders of a sequence's elements
Reordered(q) == {[i \in DOMAIN q |-> q[p[i]]] : p \in Permutations(DOMAIN q)}
\* result a stands before result b: score, then shared compounds, then
\* identifier
Outranks(a, b) ==
    \/ a.score > b.score
    \/ a.score = b.score /\ a.sharedCount > b.sharedCount
    \/ a.score = b.score /\ a.sharedCount = b.sharedCount
       /\ IdRank(a.wine) < IdRank(b.wine)

\* C15: pairTop returns the min(k, |KB|) wines that stand first by score, then
\* shared-compound count, then lexicographic identifier, in that order, and
\* returns the same sequence for every ordering of the wines in the KB.
C15_PairTopDeterministic ==
    engine.op = "pairTop" =>
        \A d \in DOMAIN engine.menu :
            LET out == engine.pairs[d]
                dish == engine.menu[d]
            IN /\ Len(out) = Min(engine.k, Len(engine.kb))
               /\ \A i, j \in DOMAIN out : i < j => Outranks(out[i], out[j])
               /\ \A i \in DOMAIN out : out[i].rank = i
               /\ \A w \in DOMAIN engine.kb :
                     \/ \E i \in DOMAIN out : out[i].wine = engine.kb[w].id
                     \/ \A i \in DOMAIN out :
                           Outranks(out[i], score(dish, engine.kb[w], engine.cfg))
               /\ \A kb2 \in Reordered(engine.kb) :
                     pairTop(dish, kb2, engine.k, engine.cfg) = out

\* W10 stands before W1 in the KB, both have the same score and shared
\* compounds, and W1 is returned first
C15_Witness ==
    /\ engine.op = "pairTop" /\ Len(engine.kb) = 3 /\ Len(engine.menu) >= 1
    /\ engine.kb[1].id = "W10" /\ engine.kb[2].id = "W1" /\ engine.k = 2
    /\ engine.pairs[1][1].wine = "W1" /\ engine.pairs[1][2].wine = "W10"
    /\ engine.pairs[1][1].score = engine.pairs[1][2].score

\* the wine of the KB with identifier id
WineOf(id) == engine.kb[CHOOSE i \in DOMAIN engine.kb : engine.kb[i].id = id]

\* C16: similarity gives the same score for (A, B) and (B, A); every pair
\* findSimilar emits names two wines of the KB with the lower identifier
\* first (so never a wine with itself), has their similarity as its score and
\* that score is at least the threshold; no unordered pair is emitted twice,
\* in either order; every pair at or above the threshold is emitted.
C16_SimilaritySymmetric ==
    engine.op = "findSimilar" =>
        LET out == engine.similar
            ids == {engine.kb[i].id : i \in DOMAIN engine.kb}
        IN /\ \A i, j \in DOMAIN engine.kb :
                  similarity(engine.kb[i], engine.kb[j], engine.cfg)
                      = similarity(engine.kb[j], engine.kb[i], engine.cfg)
           /\ \A m \in DOMAIN out :
                  /\ out[m].a \in ids /\ out[m].b \in ids
                  /\ IdRank(out[m].a) < IdRank(out[m].b)
                  /\ out[m].score = similarity(WineOf(out[m].a), WineOf(out[m].b), engine.cfg)
                  /\ out[m].score >= engine.threshold
           /\ \A m, n \in DOMAIN out :
                  m # n => {out[m].a, out[m].b} # {out[n].a, out[n].b}
           /\ \A i, j \in DOMAIN engine.kb :
                  (i # j /\ similarity(engine.kb[i], engine.kb[j], engine.cfg)
                               >= engine.threshold)
                      => \E m \in DOMAIN out :
                             {out[m].a, out[m].b} = {engine.kb[i].id, engine.kb[j].id}

\* W2 stands before W1 in the KB and the pair is emitted as (W1, W2)
C16_Witness ==
    /\ engine.op = "findSimilar" /\ Len(engine.kb) >= 2
    /\ engine.kb[1].id = "W2" /\ engine.kb[2].id = "W1"
    /\ \E m \in DOMAIN engine.similar :
          engine.similar[m].a = "W1" /\ engine.similar[m].b = "W2"

\* entry a stands before entry b: dishes matched, then aggregate score, then
\* identifier
RanksAbove(a, b) ==
    \/ a.matches > b.matches
    \/ a.matches = b.matches /\ a.aggregate > b.aggregate
    \/ a.matches = b.matches /\ a.aggregate = b.aggregate
       /\ IdRank(a.wine) < IdRank(b.wine)

\* C17: the ranking is sorted by descending dish-match count, then descending
\* aggregate score, then ascending identifier, and is the same for every order
\* in which the dishes of the menu are submitted.
C17_RankingStable ==
    engine.op = "rank" =>
        /\ \A i, j \in DOMAIN engine.ranking :
              i < j => RanksAbove(engine.ranking[i], engine.ranking[j])
        /\ \A i \in DOMAIN engine.ranking : engine.ranking[i].rank = i
        /\ \A menu2 \in Reordered(engine.menu) :
              rank(pairMenu(menu2, engine.kb, engine.k, engine.cfg),
                   engine.kb, engine.cfg) = engine.ranking

\* W2 is the first wine the results mention, W1 has as many dishes and the
\* same aggregate score, and W1 is ranked first
C17_Witness ==
    /\ engine.op = "rank" /\ Len(engine.menu) = 2 /\ Len(engine.ranking) >= 2
    /\ engine.pairs[1][1].wine = "W2"
    /\ engine.ranking[1].wine = "W1" /\ engine.ranking[2].wine = "W2"
    /\ engine.ranking[1].matches = engine.ranking[2].matches
    /\ engine.ranking[1].aggregate = engine.ranking[2].aggregate

\* the wines of the KB that are in no dish's results
Unmatched ==
    {engine.kb[i].id : i \in DOMAIN engine.kb} \
        UNION {{engine.pairs[d][i].wine : i \in DOMAIN engine.pairs[d]} :
                   d \in DOMAIN engine.pairs}
\* every wine without a match is in the ranking, behind every wine with one
UnmatchedLast ==
    \A w \in Unmatched :
        \E i \in DOMAIN engine.ranking :
            /\ engine.ranking[i].wine = w
            /\ \A j \in DOMAIN engine.ranking :
                  engine.ranking[j].wine \notin Unmatched => j < i

\* C18 as stated: after rank, every wine without a match is in the ranking,
\* behind every wine with a match.
C18_Original == engine.op = "rank" => UnmatchedLast

\* C18: unless the caller's configuration filters them out, the wines
\* without a match in the whole menu are in the ranking, behind every wine
\* with a match.
C18_Amended == (engine.op = "rank" /\ engine.cfg.includeUnmatched) => UnmatchedLast

\* W1 is in the results of both dishes and ranked first, W3 in none and
\* ranked last
C18_Witness ==
    /\ engine.op = "rank" /\ engine.cfg.includeUnmatched
    /\ Len(engine.menu) = 2 /\ Len(engine.kb) = 3
    /\ "W3" \in Unmatched
    /\ engine.ranking[1].wine = "W1" /\ engine.ranking[1].matches = 2
    /\ engine.ranking[3].wine = "W3" /\ engine.ranking[3].matches = 0

\* C19: for a dish without compounds pairTop returns min(k, |KB|) results,
\* each marked low-confidence, and at least one when the KB is not empty.
C19_ZeroIngredients ==
    engine.op = "pairTop" =>
        \A d \in DOMAIN engine.menu :
            engine.menu[d].compounds = {} =>
                /\ Len(engine.pairs[d]) = Min(engine.k, Len(engine.kb))
                /\ \A i \in DOMAIN engine.pairs[d] : engine.pairs[d][i].lowConfidence
                /\ engine.kb # <<>> => engine.pairs[d] # <<>>

\* the dish without compounds gets k = 2 of three wines, all low-confidence
C19_Witness ==
    /\ engine.op = "pairTop" /\ Len(engine.menu) >= 1 /\ Len(engine.kb) = 3
    /\ engine.menu[1].compounds = {} /\ engine.k = 2
    /\ Len(engine.pairs[1]) = 2
    /\ engine.pairs[1][1].lowConfidence /\ engine.pairs[1][2].lowConfidence

\* a raw value that is missing or that the source scale cannot map
Unmappable(raw) ==
    \/ raw.kind = "missing"
    \/ raw.kind = "num" /\ (raw.num < 0 \/ raw.num > 100)
    \/ raw.kind = "cat" /\ raw.cat \notin {"very low", "low", "medium", "high", "very high"}

\* C20: every attribute of a wine that build puts in the KB is in 1..5, and
\* is the neutral 3 when the raw value is missing or unmappable.
C20_AttributesInRange ==
    (engine.op = "build" /\ ~engine.wine.excluded) =>
        \A a \in Attributes :
            /\ engine.wine[a] \in 1..5
            /\ Unmappable(engine.raw[a]) => engine.wine[a] = 3

\* a value off the source scale and a missing one both became 3
C20_Witness ==
    /\ engine.op = "build" /\ ~engine.wine.excluded
    /\ engine.raw.tannin = Num(250) /\ engine.wine.tannin = 3
    /\ engine.raw.body = Missing /\ engine.wine.body = 3
    /\ engine.raw.acidity = Num(100) /\ engine.wine.acidity = 5

\* the step in which processMenuFiles issued its request
MenuSendStep == pc = "idle" /\ pc' = "process-menu"
\* the step in which processMenuFiles refused to start
MenuRefusedStep ==
    /\ dom'.toast = "Please select at least one file"
    /\ dom.toast # "Please select at least one file"

\* C21: every process-menu request uploads a non-empty list of files (the
\* list as it stands when Process is clicked), each with an allowed extension
\* and 0 < size <= 10MB, and the retries of the call upload the same files;
\* with an empty list processMenuFiles issues no request and, the toast set
\* aside, changes nothing.
C21_UploadValid ==
    [][ /\ MenuSendStep =>
               /\ api'.url = "process-menu"
               /\ api'.body.files = reportState.menuFiles
               /\ Len(api'.body.files) > 0
               /\ \A i \in DOMAIN api'.body.files : Acceptable(api'.body.files[i])
        /\ (api.url = "process-menu" /\ api'.url = "process-menu") =>
               api'.body = api.body
        /\ Len(reportState.menuFiles) = 0 => api'.url # "process-menu"
        /\ MenuRefusedStep =>
               /\ Len(reportState.menuFiles) = 0
               /\ dom' = [dom EXCEPT !.toast = "Please select at least one file"]
               /\ UNCHANGED <<location, reportState, progressTracker, pc, api,
                              settled, nav, sessionReport, log>>
      ]_vars

\* two files are being uploaded, and a retry is due, after a click on Process
\* with an empty list was refused
C21_Witness ==
    /\ api.url = "process-menu" /\ api.phase = "delay"
    /\ Len(api.body.files) = 2
    /\ dom.toast = "Please select at least one file"

\* no two entries of a file list have the same name and size
NoDuplicates(list) ==
    \A i, j \in DOMAIN list : SameFile(list[i], list[j]) => i = j

\* the places of a selection whose file is acceptable, is not in the list yet
\* and does not occur earlier in the selection
FreshPlaces(list, files) ==
    {i \in DOMAIN files :
        /\ Acceptable(files[i])
        /\ \A j \in DOMAIN list : ~SameFile(list[j], files[i])
        /\ \A j \in 1..(i - 1) : ~SameFile(files[j], files[i])}

\* the files at those places, in selection order
Fresh(list, files) ==
    LET K == FreshPlaces(list, files)
        nth(n) == CHOOSE i \in K : Cardinality({j \in K : j < i}) = n - 1
    IN [n \in 1..Cardinality(K) |-> files[nth(n)]]

\* C22: neither file list ever holds two entries with the same name and
\* size; a run of handleFiles (handleWineFiles) on a selection leaves the
\* list as it was followed by the valid files of the selection that were not
\* in it, in selection order, whatever else the selection holds; a removal
\* takes out the entry at the index and nothing else.
C22_NoDuplicateFiles ==
    [][ /\ NoDuplicates(reportState'.menuFiles)
        /\ NoDuplicates(reportState'.wineFiles)
        /\ \A files \in Selections :
               handleFiles(files) =>
                   /\ reportState'.menuFiles =
                          reportState.menuFiles \o Fresh(reportState.menuFiles, files)
                   /\ reportState'.wineFiles = reportState.wineFiles
        /\ \A files \in WineSelections :
               handleWineFiles(files) =>
                   /\ reportState'.wineFiles =
                          reportState.wineFiles \o Fresh(reportState.wineFiles, files)
                   /\ reportState'.menuFiles = reportState.menuFiles
        /\ \A i \in DOMAIN reportState.menuFiles :
               removeFile(i) =>
                   /\ Len(reportState'.menuFiles) = Len(reportState.menuFiles) - 1
                   /\ \A j \in DOMAIN reportState'.menuFiles :
                          reportState'.menuFiles[j] =
                              reportState.menuFiles[IF j < i THEN j ELSE j + 1]
      ]_vars

\* both valid menu files are listed, in the order opposite to their names',
\* and the wine list holds the one valid wine file
C22_Witness ==
    /\ Len(reportState.menuFiles) = 2
    /\ reportState.menuFiles[1].size = MAX_FILE_SIZE
    /\ reportState.menuFiles[2].size = 1
    /\ Len(reportState.wineFiles) = 1

\* the step in which continueWithWines issued its request
WineSendStep == pc = "idle" /\ pc' = "process-wines"
\* the two error toasts of continueWithWines
WineToasts == {"Please select at least one wine source",
               "Please select wine files or uncheck Add wine file"}

\* C23: a run of continueWithWines issues the process-wines request only with
\* at least one of the three options checked and, with the additional-files
\* option checked, only with a non-empty wineFiles; failing that it shows an
\* error toast and changes nothing else. The request carries the two flags
\* as checked, wine files only with the additional-files option checked (then
\* the whole list) and detected wines only with the detected-wines option
\* checked. No other step issues a process-wines request.
C23_WineSourceGuard ==
    [][ /\ \A d, k, f \in BOOLEAN :
               continueWithWines(d, k, f) =>
                   IF (~d /\ ~k /\ ~f) \/ (f /\ Len(reportState.wineFiles) = 0)
                   THEN /\ dom'.toast \in WineToasts
                        /\ dom' = [dom EXCEPT !.toast = dom'.toast]
                        /\ UNCHANGED <<location, reportState, progressTracker, pc,
                                       api, settled, nav, sessionReport, log>>
                   ELSE WineSendStep =>
                        /\ api'.url = "process-wines"
                        /\ api'.body.use_detected_wines = d
                        /\ api'.body.use_knowledge_base = k
                        /\ api'.body.wine_files =
                               IF f THEN reportState.wineFiles ELSE <<>>
                        /\ api'.body.detected_wines => d
        /\ WineSendStep => \E d, k, f \in BOOLEAN : continueWithWines(d, k, f)
        /\ (api.url = "process-wines" /\ api'.url = "process-wines") =>
               api'.body = api.body
      ]_vars

\* after a click with the additional-files option checked and no wine file
\* was refused, the request went out with the detected wines and a wine file
\* and without the knowledge base
C23_Witness ==
    /\ api.url = "process-wines" /\ api.phase = "fetch"
    /\ api.body.detected_wines /\ api.body.use_detected_wines
    /\ ~api.body.use_knowledge_base
    /\ Len(api.body.wine_files) = 1
    /\ dom.toast = "Please select wine files or uncheck Add wine file"

\* the step in which the pipeline's first request was issued
PipelineStartStep == pc # Pipeline[1] /\ pc' = Pipeline[1]
\* the step in which processWines rejected
WineFailStep == log' = Append(log, <<"err", "process-wines">>)

\* C24: the process-wines request is issued only when a process-menu request
\* has returned before it (and its result is kept in menuResult); the
\* pipeline's first request is issued only in the step in which the
\* process-wines call returns; when process-wines fails, wineResult keeps its
\* value, no call is left in progress and no pipeline request is ever issued.
C24_StageOrder ==
    [][ /\ WineSendStep =>
               /\ <<"ok", "process-menu">> \in Range(log)
               /\ ~reportState.menuResult.isNull
        /\ PipelineStartStep =>
               /\ pc = "process-wines"
               /\ settled'.url = "process-wines" /\ settled'.result.ret
               /\ reportState'.wineResult = settled'.result.val
               /\ log' = log \o << <<"ok", "process-wines">>, <<"send", Pipeline[1]>> >>
        /\ WineFailStep =>
               /\ reportState'.wineResult = reportState.wineResult
               /\ pc' = "idle" /\ api' = IdleCall
        /\ <<"err", "process-wines">> \in Range(log) =>
               /\ pc' \notin PipelineSet
               /\ PipelineLog = <<>>
      ]_vars

\* the three stages started one after the other's return
C24_Witness ==
    /\ log = << <<"send", "process-menu">>, <<"ok", "process-menu">>,
                <<"send", "process-wines">>, <<"ok", "process-wines">>,
                <<"send", "analyze-similarity">> >>
    /\ pc = "analyze-similarity"
    /\ ~reportState.wineResult.isNull

\* the step in which processMenu rejected
MenuFailStep == log' = Append(log, <<"err", "process-menu">>)

\* C25: when the process-menu request fails, reportState (menuResult and
\* menuFiles with it) keeps its value, the wine options are not shown, the
\* loading screen is hidden, and 'menu-error' shows what handleApiError makes
\* of the error processMenu threw.
C25_MenuFailure ==
    [][ MenuFailStep =>
            /\ ~settled'.result.ret /\ settled'.url = "process-menu"
            /\ reportState' = reportState
            /\ reportState'.menuResult.isNull
            /\ ~dom'.wineOptions
            /\ ~dom'.loading
            /\ dom'.menuError =
                   handleApiError(<<"Failed to process menu: ">> \o settled'.result.msg)
            /\ dom'.menuError # NoMsg
            /\ pc' = "idle" /\ api' = IdleCall
      ]_vars

\* a 500 without a body text failed the upload of two files: they are still
\* listed and the server-error text is shown
C25_Witness ==
    /\ log = << <<"send", "process-menu">>, <<"err", "process-menu">> >>
    /\ settled.last.status = 500
    /\ dom.menuError = <<"Server error. Please try again later.">>
    /\ ~dom.loading /\ ~dom.wineOptions
    /\ Len(reportState.menuFiles) = 2 /\ reportState.menuResult.isNull

\* the step in which a request of the pipeline failed (rejected, or returned
\* a null result)
PipelineFailStep ==
    pc \in PipelineSet /\ pc' = "idle" /\ dom'.pairingError # dom.pairingError

\* C26: after a process-menu, process-wines or pipeline request has failed,
\* the loading screen is hidden and the section the failed step was started
\* from is displayed again: the file upload after process-menu, the wine
\* options after process-wines and after the pipeline.
C26_RetryAfterFailure ==
    [][ /\ MenuFailStep => (~dom'.loading /\ dom'.upload)
        /\ WineFailStep => (~dom'.loading /\ dom'.wineOptions)
        /\ PipelineFailStep => (~dom'.loading /\ dom'.wineOptions)
      ]_vars

\* the call made in a step of a tracker on its own
Called(op) == tracker'.last.op = op
\* the fields of a tracker that cancel and nextStep are not to touch
SameProgress(t, u) ==
    /\ u.currentStep = t.currentStep /\ u.steps = t.steps
    /\ u.totalSteps = t.totalSteps /\ u.onCancelCallback = t.onCancelCallback

\* C27: a confirmed cancel() makes isCancelled() true, invokes the cancel
\* callback once if one is set (and none otherwise) and touches no other
\* field; from then on the tracker stays cancelled, and nextStep(), with or
\* without a step name, changes nothing, until reset() is called; reset()
\* sets currentStep to 0 and cancelled to false and keeps the rest; a declined
\* cancel() leaves the tracker as it was and does not invoke the callback.
C27_CancelFreezes ==
    [][ /\ (Called("cancel") /\ tracker'.last.confirmed) =>
               /\ isCancelled(tracker'.obj)
               /\ SameProgress(tracker.obj, tracker'.obj)
               /\ tracker'.invoked =
                      tracker.invoked + (IF tracker.obj.onCancelCallback THEN 1 ELSE 0)
        /\ (Called("cancel") /\ ~tracker'.last.confirmed) =>
               /\ tracker'.obj = tracker.obj
               /\ tracker'.invoked = tracker.invoked
        /\ (Called("nextStep") /\ isCancelled(tracker.obj)) =>
               tracker'.obj = tracker.obj
        /\ (isCancelled(tracker.obj) /\ ~isCancelled(tracker'.obj)) =>
               Called("reset")
        /\ Called("reset") =>
               /\ tracker'.obj.currentStep = 0
               /\ ~isCancelled(tracker'.obj)
               /\ tracker'.obj.steps = tracker.obj.steps
               /\ tracker'.obj.totalSteps = tracker.obj.totalSteps
        /\ ~Called("cancel") => tracker'.invoked = tracker.invoked
      ]_vars

\* cancel() was confirmed on a tracker at step 1 of 2 with a callback set,
\* the callback ran once, and nextStep('Complete') was called after it
C27_Witness ==
    /\ tracker.last = TrackerCall("nextStep", "Complete", FALSE)
    /\ isCancelled(tracker.obj) /\ tracker.obj.onCancelCallback
    /\ tracker.invoked = 1
    /\ tracker.obj.currentStep = 1
    /\ tracker.obj.steps = <<"Uploading files", "Uploading files">>

\* C28: whatever was called on a ProgressTracker, 0 <= currentStep <=
\* totalSteps, and with it the width of the progress bar is between 0% and
\* 100%.
C28_StepWithinTotal ==
    /\ 0 <= tracker.obj.currentStep
    /\ tracker.obj.currentStep <= tracker.obj.totalSteps
    /\ LET p == percentage(tracker.obj) IN
       p.finite => (0 <= p.num /\ p.num <= 100 * p.den)

====
